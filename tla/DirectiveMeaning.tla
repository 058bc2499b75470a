--------------------------- MODULE DirectiveMeaning ---------------------------
(***************************************************************************)
(* What the directives of a scene file mean (doc/html/r3_3.html, 4298 ff.): *)
(* the order in which items are parsed, conditions evaluated and macros    *)
(* entered and left.  A directive is a jump here, whose target the text    *)
(* alone tells: there is no stack of conditions, and nothing is skipped    *)
(* token by token.                                                         *)
(*                                                                         *)
(* Of a true clause without a #break in front of #else the manual says two *)
(* things: that it goes on until #else, which "is only executed if the     *)
(* clause before it was a false clause" (4332, 4334), and that #else "acts  *)
(* like a #range directive that encompasses any possible number.  To avoid  *)
(* execution of the #else block, the preceding #case or #range directives  *)
(* must be ended with a #break statement" (4335).  The meaning here is the  *)
(* latter, which is what its syntax of fall-through leads to and what the  *)
(* parser does (tokenize.cpp:1852).  Of a clause that is come to from a    *)
(* true one the manual says that its condition "is evaluated" (4333); the  *)
(* clause is parsed whatever its value, as the parser does (1981).         *)
(***************************************************************************)
EXTENDS DirectiveText

VARIABLES
    text,
    last,           \* the last thing done: at which token, the value if that
                    \* is a condition, whether a #case was come to from the
                    \* clause above it, and where the end of a macro leads
    calls           \* where the macro calls under way were made

vars == <<text, last, calls>>

Done(p) == [at |-> p, value |-> TRUE, fell |-> FALSE, to |-> 0]

\* The next #elseif, #else, #case or #end of the directive that p belongs to.
NextBranch(p) ==
    LET o == IF text[p] = "if" THEN p ELSE Innermost(text, p)
    IN  Min({q \in (p + 1)..End(text, o) :
                \/ q = End(text, o)
                \/ text[q] \in {"elseif", "else", "case"} /\ Innermost(text, q) = o})

\* "#break will leave only the innermost of these" (r3_3.html:4373).
BreakTarget(p) ==
    LET o == Broken(text, p)
    IN  IF text[o] = "macro" THEN End(text, o) ELSE End(text, o) + 1

\* From a token on, what is done next: the first item, condition, call or end
\* of a macro that the directives lead to, or the end of the text.
DoneNext[q \in 1..(Len(text) + 1)] ==
    IF q = Len(text) + 1 THEN q
    ELSE CASE text[q] = "switch" -> q + 1
           [] text[q] = "macro" -> DoneNext[End(text, q) + 1]
           [] text[q] = "break" -> DoneNext[BreakTarget(q)]
           [] text[q] = "elseif" -> DoneNext[End(text, Innermost(text, q)) + 1]
           [] text[q] = "else" /\ text[Innermost(text, q)] = "if" ->
                 DoneNext[End(text, Innermost(text, q)) + 1]
           [] text[q] = "else" /\ text[Innermost(text, q)] = "switch" -> DoneNext[q + 1]
           [] text[q] = "end" /\ text[Opener(text, q)] = "while" -> Opener(text, q)
           [] text[q] = "end" /\ text[Opener(text, q)] \in {"if", "switch"} ->
                 DoneNext[q + 1]
           [] OTHER -> q

\* A clause or branch that is not the one: what follows it is looked at.
IsPassedOver == /\ text[last.at] \in {"if", "elseif", "case"}
                /\ ~last.value /\ ~last.fell
AtBranch(q) == IF text[q] \in {"elseif", "case"} THEN q ELSE DoneNext[q + 1]

Next1 ==
    CASE last.at = 0 -> DoneNext[1]
      [] last.at > 0 /\ IsPassedOver -> AtBranch(NextBranch(last.at))
      [] last.at > 0 /\ text[last.at] = "while" /\ ~last.value ->
            DoneNext[End(text, last.at) + 1]
      [] last.at > 0 /\ text[last.at] = "call" -> DoneNext[2]
      [] last.at > 0 /\ text[last.at] = "end" -> DoneNext[last.to]
      [] OTHER -> DoneNext[last.at + 1]

Init == last = Done(0) /\ calls = <<>>

Item(p) == text[p] = "item" /\ last' = Done(p) /\ UNCHANGED calls

Call(p) == text[p] = "call" /\ last' = Done(p) /\ calls' = Append(calls, p)

Return(p) ==
    /\ text[p] = "end"
    /\ last' = [Done(p) EXCEPT !.to = calls[Len(calls)] + 1]
    /\ calls' = SubSeq(calls, 1, Len(calls) - 1)

Evaluate(p) ==
    /\ text[p] \in {"if", "elseif", "while", "case"}
    /\ \E v \in BOOLEAN :
          last' = [Done(p) EXCEPT
                      !.value = v,
                      !.fell = /\ text[p] = "case" /\ text[p - 1] # "switch"
                               /\ ~(IsPassedOver /\ NextBranch(last.at) = p)]
    /\ UNCHANGED calls

Next ==
    /\ LET p == Next1 IN p <= Len(text) /\ (Item(p) \/ Call(p) \/ Return(p) \/ Evaluate(p))
    /\ UNCHANGED text

Spec == Init /\ [][Next]_vars
=============================================================================
