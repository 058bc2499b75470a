----------------------------- MODULE MCDirectives -----------------------------
(* Instances of Directives: the texts of up to N tokens made of items,     *)
(* conditionals, loops, switches and breaks, and some longer ones with a   *)
(* macro, or with a break in a branch that has others behind it.           *)
EXTENDS Directives

CONSTANT N

\* Bodies of n tokens, the longer ones out of the shorter ones.
RECURSIVE Bodies(_)
Framed(open, n, close) == {open \o b \o close : b \in Bodies(n)}
Framed2(open, mid, n) ==
    UNION {{open \o b \o mid \o c \o <<"end">> : b \in Bodies(k), c \in Bodies(n - k)} :
           k \in 0..n}
Statements(n) ==
    IF n = 1 THEN {<<"item">>, <<"break">>}
    ELSE Framed(<<"if">>, n - 2, <<"end">>) \cup Framed(<<"while">>, n - 2, <<"end">>)
         \cup (IF n < 3 THEN {} ELSE Framed(<<"switch", "case">>, n - 3, <<"end">>)
                                      \cup Framed2(<<"if">>, <<"else">>, n - 3)
                                      \cup Framed2(<<"if">>, <<"elseif">>, n - 3))
         \cup (IF n < 4 THEN {} ELSE Framed2(<<"switch", "case">>, <<"case">>, n - 4)
                                      \cup Framed2(<<"switch", "case">>, <<"else">>, n - 4))
Bodies(n) ==
    IF n = 0 THEN {<<>>}
    ELSE UNION {{s \o b : s \in Statements(k), b \in Bodies(n - k)} : k \in 1..n}

\* Loops, switches and calls that the short texts have no room for.
IfOf(b, c) == <<"if">> \o b \o <<"else">> \o c \o <<"end">>
WhileOf(b) == <<"while">> \o b \o <<"end">>
CaseOf(b, c) == <<"switch", "case">> \o b \o <<"case">> \o c \o <<"end">>
MacroOf(b, use) == <<"macro">> \o b \o <<"end">> \o use
item == <<"item">>
break == <<"break">>
call == <<"call">>
Longer ==
    {MacroOf(b, u) :
        b \in {item, break, <<"if">> \o break \o <<"end">> \o item,
              WhileOf(break \o item), <<"switch", "case">> \o break \o <<"end">> \o item},
        u \in {call, call \o call, IfOf(call, item), IfOf(item, call), WhileOf(call),
              WhileOf(IfOf(call, call)), CaseOf(call, call), CaseOf(call \o break, item)}}
    \cup {WhileOf(CaseOf(break, item) \o break), WhileOf(WhileOf(break) \o item),
          CaseOf(WhileOf(break), item) \o item, CaseOf(CaseOf(break, item), item),
          WhileOf(CaseOf(item, IfOf(item, item) \o break)),
          IfOf(IfOf(item, item), CaseOf(item, item)), IfOf(WhileOf(item \o break), IfOf(item, item)),
          WhileOf(IfOf(break, item)), WhileOf(IfOf(item \o break, IfOf(item, item)) \o item),
          CaseOf(IfOf(break, item), item), WhileOf(CaseOf(IfOf(break, item), item)),
          <<"if", "item", "elseif", "item", "elseif", "if", "item", "end", "else", "item",
            "end">>}

\* A break in a branch with others behind it, followed by various things.
IfElif(b, c) == <<"if">> \o b \o <<"elseif">> \o c \o <<"end">>
Broke == {IfOf(break, item), IfElif(break, item), IfOf(IfOf(break, item), item),
          IfOf(item, <<"if">> \o IfOf(break, item) \o <<"end">>),
          <<"if">> \o IfOf(break, item) \o <<"end">>,
          IfOf(<<"if">> \o break \o <<"end">>, item),
          IfOf(IfOf(item, break), item)}
Rest == {<<>>, item, break, IfOf(item, item), IfOf(item, item) \o item, WhileOf(item)}
BreaksInBranch ==
    UNION {{WhileOf(b \o r), <<"switch", "case">> \o b \o r \o <<"else">> \o e \o <<"end">>,
            CaseOf(b \o r, item), MacroOf(b \o r, call \o item)} : 
           b \in Broke, r \in Rest, e \in {<<>>, item}}

MCTexts == Longer \cup BreaksInBranch
           \cup {t \in UNION {Bodies(n) : n \in 0..N} : WellFormed(t)}
=============================================================================
