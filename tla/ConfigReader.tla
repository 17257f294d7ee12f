---------------------------- MODULE ConfigReader ----------------------------
(***************************************************************************)
(* What loading a configuration file does to the memory, and what saving   *)
(* the memory does to the file: ConfigBase of ConfigReader.cpp, which      *)
(* reads sddm.conf and the files of its directories and writes state.conf. *)
(*                                                                         *)
(* A file is a sequence of lines that start a section or assign a value.   *)
(* Comments and blank lines are left out, as is the type of a value: lines *)
(* are whole, and values have neither a # in them nor blanks around them.  *)
(*                                                                         *)
(* The memory of a configuration is a function: its domain are the pairs   *)
(* of a section and a name that are known.  The default values are another *)
(* one.                                                                    *)
(***************************************************************************)
EXTENDS Sublists, SequencesExt, FiniteSetsExt

\* IMPLICIT_SECTION
General == "General"

Header(s) == [section |-> s]
Assign(n, v) == [name |-> n, value |-> v]
IsHeader(line) == "section" \in DOMAIN line

\* The section that line i of a file is in.
SectionAt(file, i) ==
    LET headers == {j \in 1..i : IsHeader(file[j])}
    IN  IF headers = {} THEN General ELSE file[Max(headers)].section

\* The lines of a file that assign to a name in a section.
Assignments(file, e) ==
    {i \in DOMAIN file : /\ ~IsHeader(file[i])
                         /\ <<SectionAt(file, i), file[i].name>> = e}

\* What another program reads there: the last assignment counts.
Reads(file, e) == {file[i].value : i \in {Max(a) : a \in {Assignments(file, e)} \ {{}}}}

-----------------------------------------------------------------------------
\* ConfigBase::loadInternal: an entry that no line assigns keeps its value.

\* The sections that were renamed in version 0.14.0.
OldNames(s) == CASE s = "X11" -> {"X11", "XDisplay"}
                 [] s = "Wayland" -> {"Wayland", "WaylandDisplay"}
                 [] OTHER -> {s}

LoadInternal(file, memory) ==
    [e \in DOMAIN memory |->
        LET at == UNION {Assignments(file, <<s, e[2]>>) : s \in OldNames(e[1])}
        IN  IF at = {} THEN memory[e] ELSE file[Max(at)].value]

-----------------------------------------------------------------------------
\* ConfigBase::save for everything, the only form that the program uses.

Known(s, memory) == s = General \/ \E e \in DOMAIN memory : e[1] = s

\* Fault: an entry that the file has is added to it all the same.
RemainingAll(file, memory, default) == {e \in DOMAIN memory : memory[e] # default[e]}

\* Entries that have to be added, for the file does not have them.
Remaining(file, memory, default) ==
    {e \in DOMAIN memory : memory[e] # default[e] /\ Assignments(file, e) = {}}

\* Fault: a line is left as it is when the memory has no value for it.
RewrittenIfSet(file, i, memory) ==
    LET e == <<SectionAt(file, i), file[i].name>>
    IN  IF ~IsHeader(file[i]) /\ e \in DOMAIN memory /\ memory[e] # ""
        THEN Assign(e[2], memory[e])
        ELSE file[i]

\* A line with the value of the memory.
Rewritten(file, i, memory) ==
    LET e == <<SectionAt(file, i), file[i].name>>
    IN  IF ~IsHeader(file[i]) /\ e \in DOMAIN memory
        THEN Assign(e[2], memory[e])
        ELSE file[i]

Changed(file, memory, default) ==
    \/ Remaining(file, memory, default) # {}
    \/ \E i \in DOMAIN file : Rewritten(file, i, memory) # file[i]

Positions(file) == [i \in DOMAIN file |-> i]

\* The places in a file whose lines go to the data of some sections: a header
\* that comes again is left out, unless nobody knows the section.
Kept(file, sections, memory) ==
    LET in == {i \in DOMAIN file : SectionAt(file, i) \in sections}
        again == {i \in in : /\ IsHeader(file[i]) /\ Known(file[i].section, memory)
                            /\ \E j \in in : j < i}
    IN  Sublist(Positions(file), in \ again)

Lines(file, sections, memory) ==
    LET kept == Kept(file, sections, memory)
    IN  [k \in DOMAIN kept |-> Rewritten(file, kept[k], memory)]

\* What has to be added to a section.
Added(file, s, memory, default) ==
    LET added == SetToSeq({e \in Remaining(file, memory, default) : e[1] = s})
    IN  [k \in DOMAIN added |-> Assign(added[k][2], memory[added[k]])]

\* A section is written once, with what was under any of its headers, and then
\* what has to be added to it.
SectionData(file, s, memory, default) ==
    LET has == \E i \in DOMAIN file : SectionAt(file, i) = s
    IN  (IF has THEN Lines(file, {s}, memory) ELSE <<Header(s)>>)
        \o Added(file, s, memory, default)

\* The places where a section that is known is met first.
Begins(file, memory) ==
    LET first == {i \in DOMAIN file :
                     \A j \in 1..(i - 1) : SectionAt(file, j) # SectionAt(file, i)}
    IN  Sublist(Positions(file), {i \in first : Known(SectionAt(file, i), memory)})

\* sectionOrder: as they come in the file, then the new ones.
SectionOrder(file, memory, default) ==
    LET begins == Begins(file, memory)
        old == [k \in DOMAIN begins |-> SectionAt(file, begins[k])]
    IN  old \o SetToSeq({e[1] : e \in Remaining(file, memory, default)} \ ToSet(old))

\* Fault: the lines of sections that are not known are not written.
SavedKnown(file, memory, default) ==
    LET order == SectionOrder(file, memory, default)
    IN  FlattenSeq([k \in DOMAIN order |-> SectionData(file, order[k], memory, default)])

\* The sections that nobody knows go to the end.
Saved(file, memory, default) ==
    LET order == SectionOrder(file, memory, default)
        unknown == {SectionAt(file, i) : i \in DOMAIN file} \ ToSet(order)
    IN  FlattenSeq([k \in DOMAIN order |-> SectionData(file, order[k], memory, default)])
        \o Lines(file, unknown, memory)
=============================================================================
