----------------------------- MODULE UserModel -----------------------------
(***************************************************************************)
(* The users a greeter offers: UserModel.cpp.  An account has a name, a    *)
(* user id and a shell; pictures, and which users have none, are left out. *)
(***************************************************************************)
EXTENDS Sublists, SequencesExt, FiniteSetsExt

CONSTANTS
    UserNames,          \* names of accounts, as they are sorted
    MinimumUid, MaximumUid, HideUsers, HideShells,      \* Users
    DisableAvatarsThreshold,                            \* Theme
    NeedAllUsers        \* of the theme

ASSUME UserAssumption == /\ {MinimumUid, MaximumUid} \subseteq Nat
                         /\ DisableAvatarsThreshold \in Nat
                         /\ NeedAllUsers \in BOOLEAN
                         /\ UserNames \in Seq(STRING)

Listed(account) ==
    /\ account.uid \in MinimumUid..MaximumUid
    /\ account.name \notin HideUsers
    /\ account.shell \notin HideShells

NamesOf(accounts) == {accounts[i].name : i \in DOMAIN accounts}

ListedIn(passwd) == Sublist(passwd, {a \in ToSet(passwd) : Listed(a)})

\* Unless the theme needs all of them, no more users are taken than one above
\* the threshold.
ContainsAllUsers(passwd) ==
    NeedAllUsers \/ Len(ListedIn(passwd)) <= DisableAvatarsThreshold

Taken(passwd) ==
    NamesOf(IF ContainsAllUsers(passwd) THEN ListedIn(passwd)
            ELSE SubSeq(ListedIn(passwd), 1, DisableAvatarsThreshold + 1))

\* Fault: the last user is not looked for when the search ends early.
UsersWithoutLast(passwd, last) ==
    Sublist(UserNames, Taken(passwd))

\* The constructor: the last user is added to these, if there is an account of
\* that name; then they are sorted, and doubles removed.
Users(passwd, last) ==
    LET added == IF ContainsAllUsers(passwd) THEN {} ELSE {last} \cap NamesOf(passwd)
    IN  Sublist(UserNames, Taken(passwd) \union added)

LastUserIndex(users, last) ==
    LET at == {i \in DOMAIN users : users[i] = last}
    IN  IF at = {} THEN 0 ELSE Max(at) - 1
=============================================================================
