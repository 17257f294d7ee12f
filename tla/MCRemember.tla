----------------------------- MODULE MCRemember -----------------------------
(***************************************************************************)
(* Two places for sddm.conf, session files that hide each other, and a     *)
(* state.conf that somebody has written to.                                *)
(***************************************************************************)
EXTENDS Remember

DirAndFile == <<"sddm.conf.d/10.conf", "sddm.conf">>
InDir == [p \in ToSet(DirAndFile) |-> IF p = "sddm.conf" THEN "none" ELSE "sddm.conf.d"]

H(s) == [section |-> s]
A(n, v) == [name |-> n, value |-> v]

Edits == {<<H("Users"), A("RememberLastSession", "false")>>,
          <<H("Theme"), A("RememberLastSession", "false"),
            H("Users"), A("RememberLastSession", "true")>>}

StateFiles ==
    {<<>>,
     <<A("Version", "1"), H("Last"), A("User", "ann"), H("Old"), A("User", "bob"),
       H("Last"), A("User", "bob"), A("Seat", "seat0"), H("General"), A("Id", "7"),
       H("Old"), A("Session", "x")>>}

Entry(lines) == <<H("Desktop Entry")>> \o lines
SomeFiles ==
    [p \in {"wayland/usr/plasma", "x11/local/plasma", "x11/usr/plasma"} |->
        CASE p = "wayland/usr/plasma" ->
               [type |-> "wayland", dir |-> "usr", name |-> "plasma",
                lines |-> Entry(<<A("TryExec", "startplasma"), H("Desktop Action new"),
                                  A("Hidden", "true")>>)]
          [] p = "x11/local/plasma" ->
               [type |-> "x11", dir |-> "local", name |-> "plasma",
                lines |-> Entry(<<A("Hidden", "true")>>)]
          [] p = "x11/usr/plasma" ->
               [type |-> "x11", dir |-> "usr", name |-> "plasma", lines |-> Entry(<<>>)]]

SearchedDirs == <<"local", "usr">>
SomeNames == <<"plasma">>
Installed == {"", "startplasma"}

SortedNames == <<"ann", "bob">>
Account(n, id) == [name |-> n, uid |-> id, shell |-> "sh"]
SomePasswds == {<<Account("ann", 1000), Account("bob", 1001)>>}
NoAutologinSession == [user |-> "bob", session |-> ""]
=============================================================================
