---------------------------- MODULE SessionModel ----------------------------
(***************************************************************************)
(* The sessions a greeter offers: Session.cpp and SessionModel.cpp, and    *)
(* what an autologin makes of the last one: findSessionEntry of            *)
(* Display.cpp.                                                            *)
(*                                                                         *)
(* A session file is a name in one of the directories of its type, and a   *)
(* path names it among all.  What can be on the disk is a constant; what   *)
(* is there, a set of paths.                                               *)
(***************************************************************************)
EXTENDS Sublists, SequencesExt, FiniteSetsExt

CONSTANTS
    Files,          \* [path -> [type, dir, name, lines]], with the lines of
                    \* the file as in ConfigReader
    Dirs,           \* the directories of either type, as they are searched
    Names,          \* the names of files, as a directory lists them
    Executables,    \* the values of TryExec that can be executed
    Dri             \* /dev/dri exists

\* Session::Type
Types == {"wayland", "x11"}

ASSUME SessionAssumption ==
    /\ \A p \in DOMAIN Files : /\ Files[p].type \in Types
                               /\ Files[p].dir \in ToSet(Dirs)
                               /\ Files[p].name \in ToSet(Names)
    /\ \A p, q \in DOMAIN Files :
          Files[p].type = Files[q].type /\ Files[p].dir = Files[q].dir
             /\ Files[p].name = Files[q].name => p = q
    /\ IsInjective(Names) /\ ToSet(Names) \cap DOMAIN Files = {}
    /\ Dirs \in Seq(ToSet(Dirs)) /\ Names \in Seq(ToSet(Names))
    /\ Dri \in BOOLEAN

-----------------------------------------------------------------------------
\* DesktopFileFormat::readFunc and the value of a key of Desktop Entry: the last
\* one in the section counts, and the empty text where there is none.

Value(lines, key) ==
    LET header(i) == "section" \in DOMAIN lines[i]
        in(i) == \E h \in 1..i : /\ lines[h] = [section |-> "Desktop Entry"]
                                 /\ \A j \in (h + 1)..i : ~header(j)
        at == {i \in DOMAIN lines : ~header(i) /\ in(i) /\ lines[i].name = key}
    IN  IF at = {} THEN "" ELSE lines[Max(at)].value

\* Session::setTo with a name, or with an absolute path: the path it reads from,
\* or none.
Place(p) == Min({k \in DOMAIN Dirs : Dirs[k] = Files[p].dir})

SetTo(type, ref, disk) ==
    LET found == IF ref \in DOMAIN Files THEN disk \cap {ref}
                 ELSE {p \in disk : Files[p].type = type /\ Files[p].name = ref}
    IN  {p \in found : \A q \in found : Place(p) <= Place(q)}

-----------------------------------------------------------------------------
\* SessionModel::populate

\* What the directories list, with the first of equal names only.
EntryList(type, disk) ==
    LET in(k) == {Files[p].name : p \in {p \in disk : /\ Files[p].type = type
                                                     /\ Files[p].dir = Dirs[k]}}
    IN  FlattenSeq([k \in DOMAIN Dirs |->
            Sublist(Names, in(k) \ UNION {in(j) : j \in 1..(k - 1)})])

\* Neither hidden in one way or the other nor for a program that is not there.
Shown ==
    {p \in DOMAIN Files : /\ Value(Files[p].lines, "Hidden") # "true"
                          /\ Value(Files[p].lines, "NoDisplay") # "true"
                          /\ Value(Files[p].lines, "TryExec") \in Executables}

Populate(type, disk) ==
    LET names == EntryList(type, disk)
        paths == [i \in DOMAIN names |-> CHOOSE p \in SetTo(type, names[i], disk) : TRUE]
    IN  Sublist(paths, Shown)

\* The constructor of the model, and its refresh.
Sessions(disk) ==
    (IF Dri THEN Populate("wayland", disk) ELSE <<>>) \o Populate("x11", disk)

\* Fault: without the last session no row is selected.
LastIndexOrNone(list, last, index) ==
    LET at == {i \in DOMAIN list : list[i] = last}
    IN  IF at = {} THEN -1 ELSE Min(at) - 1

\* lastIndex, for a list that it may be found in.
LastIndex(list, last, index) ==
    LET at == {i \in DOMAIN list : list[i] = last}
    IN  IF at = {} THEN index ELSE Min(at) - 1

-----------------------------------------------------------------------------
\* Display::findSessionEntry and the session of attemptAutologin.

FindSessionEntry(type, ref, disk) ==
    \E p \in disk : Files[p].type = type /\ ref \in {p, Files[p].name}

AutologinSession(ref, disk) ==
    IF FindSessionEntry("wayland", ref, disk) THEN SetTo("wayland", ref, disk)
    ELSE IF FindSessionEntry("x11", ref, disk) THEN SetTo("x11", ref, disk)
    ELSE {}
=============================================================================
