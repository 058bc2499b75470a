---------------------------- MODULE DirectiveText ----------------------------
(***************************************************************************)
(* Scene files as the directives of the scene description language see     *)
(* them, and how the directives of a file belong together.  An "item" is   *)
(* any token that is not a directive; "while" is #while and #for, "case"   *)
(* is #case and #range, "if" is #if, #ifdef and #ifndef; "call" invokes    *)
(* the macro of the file, of which there is one at most.                   *)
(***************************************************************************)
EXTENDS Integers, Sequences, FiniteSets, FiniteSetsExt

Kinds == {"item", "if", "elseif", "else", "end", "while", "switch", "case", "break",
          "macro", "call"}
Openers == {"if", "while", "switch", "macro"}

Opened(text, p, q) == Cardinality({i \in p..q : text[i] \in Openers})
Closed(text, p, q) == Cardinality({i \in p..q : text[i] = "end"})

\* The #end of the directive that is opened at p, and the reverse.
End(text, p) ==
    Min({q \in p..Len(text) : text[q] = "end" /\ Opened(text, p, q) = Closed(text, p, q)})
Opener(text, q) ==
    Max({p \in 1..q : text[p] \in Openers /\ Opened(text, p, q) = Closed(text, p, q)})

\* The directives that q is inside of or ends, and those of some kinds.
Around(text, q) == {p \in 1..(q - 1) : text[p] \in Openers /\ End(text, p) >= q}
Within(text, q, kinds) == {p \in Around(text, q) : text[p] \in kinds}
Innermost(text, q) == Max(Around(text, q))

\* What a #break leaves.
Broken(text, q) == Max(Within(text, q, {"while", "switch", "macro"}))

\* The first token from p on that is not part of a directive that begins there,
\* nor of another branch of an #if that is open there.
PassedOver(text, p) ==
    LET To[q \in 1..(Len(text) + 1)] ==
            CASE q <= Len(text) /\ text[q] = "break" -> To[q + 1]
              [] q <= Len(text) /\ text[q] = "else"
                   /\ text[Innermost(text, q)] = "switch" -> To[q + 1]
              [] q <= Len(text) /\ text[q] \in Openers -> To[End(text, q) + 1]
              [] q <= Len(text) /\ text[q] \in {"else", "elseif"}
                   /\ text[Innermost(text, q)] = "if" ->
                    To[End(text, Innermost(text, q)) + 1]
              [] OTHER -> q
    IN  To[p]

\* A #break in a branch of an #if that has more branches, when what it leaves
\* has nothing to parse from that #if's #end to its own #end or next clause: the
\* parser passes over that without noticing.
Unnoticed(text, q) ==
    \E p \in Within(text, q, {"if"}) :
        /\ p > Broken(text, q)
        /\ \E r \in (q + 1)..End(text, p) :
               text[r] \in {"else", "elseif"} /\ Innermost(text, r) = p
        /\ LET next == PassedOver(text, End(text, p) + 1)
           IN  text[next] \in {"end", "case"}
               /\ Innermost(text, next) = Broken(text, q)

\* A file in which every directive has its #end, and each other directive is
\* inside of one it may belong to.
WellFormed(text) ==
    /\ \A q \in 1..Len(text) : Opened(text, 1, q) >= Closed(text, 1, q)
    /\ Opened(text, 1, Len(text)) = Closed(text, 1, Len(text))
    /\ \A q \in 1..Len(text) :
          /\ text[q] = "elseif" => Around(text, q) # {} /\ text[Innermost(text, q)] = "if"
          /\ text[q] = "else" => /\ Around(text, q) # {}
                                 /\ text[Innermost(text, q)] \in {"if", "switch"}
          /\ text[q] = "case" => Around(text, q) # {} /\ text[Innermost(text, q)] = "switch"
          /\ text[q] = "break" => Within(text, q, {"while", "switch", "macro"}) # {}
          /\ text[q] = "switch" => text[q + 1] = "case"
          \* the last branch is the #else, and the macro is not used in itself
          /\ text[q] = "else" => \A r \in (q + 1)..Len(text) :
                text[r] \in {"else", "elseif", "case"} => Around(text, r) # Around(text, q)
          /\ text[q] = "macro" => q = 1
          /\ text[q] = "call" => text[1] = "macro" /\ q > End(text, 1)
=============================================================================
