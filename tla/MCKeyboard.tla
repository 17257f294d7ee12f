----------------------------- MODULE MCKeyboard -----------------------------
(***************************************************************************)
(* A keyboard with one or two layouts, and one with four: the names that X *)
(* gives to keymaps like "pc+us+ru:2" and "pc+us+ru:2+de:3+fr:4".          *)
(***************************************************************************)
EXTENDS Keyboard

Group(n, length, tail) == [name |-> n, length |-> length, tail |-> tail]

One == <<Group("us", 2, 0)>>
Two == <<Group("us", 2, 0), Group("ru", 2, 2)>>
Four == <<Group("us", 2, 0), Group("ru", 2, 2), Group("de", 2, 2),
          Group("fr", 2, 2)>>

FewLayouts == {One, Two}
ManyLayouts == {One, Four}
=============================================================================
