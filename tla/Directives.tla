------------------------------ MODULE Directives ------------------------------
(***************************************************************************)
(* Parse_Directive, Skip_Tokens, Break, Invoke_Macro and Return_From_Macro *)
(* (backend/parser/tokenize.cpp): the conditional directives of a scene    *)
(* file, carried out while the file is read token by token.  A branch that *)
(* is not taken is read and skipped, and Skip_Tokens calls Get_Token,      *)
(* which calls Parse_Directive, which calls Skip_Tokens: the calls under   *)
(* way are in "frames".  Get_Token returns for a token that is not a       *)
(* directive, and for the HASH_TOKEN by which a directive "insures         *)
(* Skip_Token takes notice"; after any other directive it reads on.        *)
(*                                                                         *)
(* What a condition evaluates to is left open, but for loops, that end     *)
(* after MaxRounds rounds at the latest.                                   *)
(***************************************************************************)
EXTENDS DirectiveText

CONSTANTS
    Texts,          \* scene files
    MaxRounds       \* bound: loop conditions that hold

ASSUME TextsAssumption == \A t \in Texts : WellFormed(t)
ASSUME MaxRoundsAssumption == MaxRounds \in Nat

Types == {"IF_TRUE", "IF_FALSE", "ELSE", "CASE_TRUE", "CASE_FALSE", "SWITCH", "WHILE",
          "SKIP_TIL_END", "DECLARING_MACRO", "INVOKING_MACRO"}

VARIABLES
    text, pos,      \* the file, and the token that is read next
    stack,          \* Cond_Stack: types, and where each was opened or called
    frames,         \* the calls of Skip_Tokens and Break under way
    Skipping,
    token,          \* what Get_Token has returned and nobody has looked at yet
    error,
    rounds,         \* loop conditions that held
    last, calls,    \* history: what was done, as DirectiveMeaning has it
    astray          \* history: a #break was not noticed where it matters

vars == <<text, pos, stack, frames, Skipping, token, error, rounds, last, calls, astray>>
history == <<last, calls, astray>>

Top == IF stack = <<>> THEN "BUSY" ELSE stack[Len(stack)].type
Front(s) == SubSeq(s, 1, Len(s) - 1)
Done(p) == [at |-> p, value |-> TRUE, fell |-> FALSE, to |-> 0]

Init ==
    /\ text \in Texts /\ pos = 1
    /\ stack = <<>> /\ frames = <<>> /\ Skipping = FALSE
    /\ token = "none" /\ error = "none" /\ rounds = 0
    /\ last = Done(0) /\ calls = <<>> /\ astray = FALSE

-----------------------------------------------------------------------------
Push(type, at) == stack' = Append(stack, [type |-> type, at |-> at])
Become(type) == stack' = [stack EXCEPT ![Len(stack)].type = type]
Pop == stack' = Front(stack)

\* Skip_Tokens(cond), called when the stack is n entries high.
SkipTokens(n, cond) ==
    /\ frames' = Append(frames, [kind |-> "skip", height |-> n, cond |-> cond,
                                 prev |-> Skipping])
    /\ Skipping' = TRUE
    /\ token' = "none"

\* The directive is over: Get_Token reads on, or returns.
ReadOn == token' = "none" /\ UNCHANGED <<frames, Skipping>>
ReturnHash == token' = "hash" /\ UNCHANGED <<frames, Skipping>>
ReadOnOrReturn == IF Skipping THEN ReturnHash ELSE ReadOn

Evaluated(p, v, fell) == last' = [Done(p) EXCEPT !.value = v, !.fell = fell]
              /\ UNCHANGED <<calls, astray>>
KeepHistory == UNCHANGED <<rounds, history>>

\* Get_Token reads a token of a kind; the next one is at pos + 1 but for loops
\* and macros.
AtMacroEnd == Top = "INVOKING_MACRO" /\ pos = End(text, 1)
Reads(kinds) ==
    /\ token = "none" /\ error = "none" /\ pos <= Len(text)
    /\ text[pos] \in kinds /\ ~AtMacroEnd
Advance == pos' = pos + 1 /\ UNCHANGED <<text, error>>

-----------------------------------------------------------------------------
\* A token that the parser gets, or that ends a round of a loop that skips; a
\* macro's name is such a token when it is skipped.
ReadItem ==
    /\ Reads({"item", "call"}) /\ (text[pos] = "call" => Skipping)
    /\ Advance
    /\ IF frames = <<>> THEN token' = "none" /\ last' = Done(pos)
                        ELSE token' = "item" /\ UNCHANGED last
    /\ UNCHANGED <<stack, frames, Skipping, rounds, calls, astray>>

SkipOpener ==
    /\ Reads({"if", "while", "switch"}) /\ Skipping
    /\ Advance
    /\ Push("SKIP_TIL_END", pos) /\ SkipTokens(Len(stack) + 1, "SKIP_TIL_END")
    /\ KeepHistory

If ==
    /\ Reads({"if"}) /\ ~Skipping
    /\ Advance
    /\ \/ Push("IF_TRUE", pos) /\ ReadOn /\ Evaluated(pos, TRUE, FALSE)
       \/ /\ Push("IF_FALSE", pos) /\ SkipTokens(Len(stack) + 1, "IF_FALSE")
          /\ Evaluated(pos, FALSE, FALSE)
    /\ UNCHANGED rounds

While ==
    /\ Reads({"while"}) /\ ~Skipping
    /\ Advance
    /\ \/ /\ rounds < MaxRounds /\ rounds' = rounds + 1
          /\ Push("WHILE", pos) /\ ReadOn /\ Evaluated(pos, TRUE, FALSE)
       \/ /\ Push("SKIP_TIL_END", pos) /\ SkipTokens(Len(stack) + 1, "SKIP_TIL_END")
          /\ Evaluated(pos, FALSE, FALSE) /\ UNCHANGED rounds

\* The branch that was taken is over: the others are skipped.
BranchOver(kind) ==
    /\ Reads({kind}) /\ Top = "IF_TRUE"
    /\ Advance
    /\ Become("SKIP_TIL_END") /\ SkipTokens(Len(stack), "SKIP_TIL_END")
    /\ KeepHistory

Else ==
    /\ Reads({"else"}) /\ Top \in {"IF_FALSE", "CASE_FALSE"}
    /\ Advance
    /\ Become(IF Top = "IF_FALSE" THEN "ELSE" ELSE "CASE_TRUE")
    /\ ReturnHash
    /\ KeepHistory

Elseif ==
    /\ Reads({"elseif"}) /\ Top = "IF_FALSE"
    /\ Advance
    /\ \/ Become("IF_TRUE") /\ ReturnHash /\ Evaluated(pos, TRUE, FALSE)
       \/ ReadOn /\ Evaluated(pos, FALSE, FALSE) /\ UNCHANGED stack
    /\ UNCHANGED rounds

\* #elseif, #else and #case where they do not matter.
PassBranch ==
    /\ \/ Reads({"elseif", "else", "case"}) /\ Top = "SKIP_TIL_END"
       \/ Reads({"else"}) /\ Top = "CASE_TRUE"
    /\ Advance /\ ReadOn
    /\ UNCHANGED stack /\ KeepHistory

Switch ==
    /\ Reads({"switch"}) /\ ~Skipping
    /\ Advance
    /\ Push("SWITCH", pos) /\ ReadOn /\ KeepHistory

FirstCase ==
    /\ Reads({"case"}) /\ Top = "SWITCH"
    /\ Advance
    /\ \/ Become("CASE_TRUE") /\ ReadOn /\ Evaluated(pos, TRUE, FALSE)
       \/ /\ Become("CASE_FALSE") /\ SkipTokens(Len(stack), "CASE_FALSE")
          /\ Evaluated(pos, FALSE, FALSE)
    /\ UNCHANGED rounds

\* Variant: a clause does not fall through into the next one.
CaseEnds ==
    /\ Reads({"case"})
    /\ Advance
    /\ \/ Top = "CASE_FALSE" /\ Become("CASE_TRUE") /\ ReturnHash
          /\ Evaluated(pos, TRUE, FALSE)
       \/ Top = "CASE_FALSE" /\ ReadOn /\ Evaluated(pos, FALSE, FALSE) /\ UNCHANGED stack
       \/ /\ Top = "CASE_TRUE" /\ Become("SKIP_TIL_END")
          /\ SkipTokens(Len(stack), "SKIP_TIL_END")
          /\ \E v \in BOOLEAN : Evaluated(pos, v, TRUE)
    /\ UNCHANGED rounds

Case ==
    /\ Reads({"case"})
    /\ Advance
    /\ \/ Top = "CASE_FALSE" /\ Become("CASE_TRUE") /\ ReturnHash
          /\ Evaluated(pos, TRUE, FALSE)
       \/ Top = "CASE_FALSE" /\ ReadOn /\ Evaluated(pos, FALSE, FALSE) /\ UNCHANGED stack
       \/ /\ Top = "CASE_TRUE" /\ ReadOn /\ UNCHANGED stack
          /\ \E v \in BOOLEAN : Evaluated(pos, v, TRUE)
    /\ UNCHANGED rounds

-----------------------------------------------------------------------------
(* Loops and the end of directives.                                         *)

EndBranch ==
    /\ Reads({"end"})
    /\ Top \in {"IF_TRUE", "ELSE", "CASE_TRUE", "CASE_FALSE", "DECLARING_MACRO",
                "SKIP_TIL_END", "IF_FALSE"}
    /\ Advance
    /\ Pop
    /\ IF Top = "IF_FALSE" THEN ReturnHash ELSE ReadOnOrReturn
    /\ KeepHistory

\* Back to the condition of the loop.
EndLoop ==
    /\ Reads({"end"}) /\ Top = "WHILE"
    /\ LET at == stack[Len(stack)].at
       IN  /\ pos' = at + 1
           /\ \/ /\ rounds < MaxRounds /\ rounds' = rounds + 1
                 /\ Evaluated(at, TRUE, FALSE) /\ ReadOn /\ UNCHANGED stack
              \/ /\ Become("SKIP_TIL_END") /\ SkipTokens(Len(stack), "SKIP_TIL_END")
                 /\ Evaluated(at, FALSE, FALSE) /\ UNCHANGED rounds
    /\ UNCHANGED <<text, error>>

Break ==
    /\ Reads({"break"})
    /\ Advance
    /\ IF Skipping THEN ReadOn /\ UNCHANGED astray
       ELSE /\ frames' = Append(frames, [kind |-> "break", height |-> 0, cond |-> "none",
                                         prev |-> Skipping])
            /\ Skipping' = TRUE /\ token' = "start"
            /\ astray' = (astray \/ Unnoticed(text, pos))
    /\ UNCHANGED <<stack, rounds, last, calls>>

-----------------------------------------------------------------------------
(* Macros.                                                                  *)

Macro ==
    /\ Reads({"macro"})
    /\ Advance
    /\ Push("DECLARING_MACRO", pos) /\ SkipTokens(Len(stack) + 1, "DECLARING_MACRO")
    /\ KeepHistory

InvokeMacro ==
    /\ Reads({"call"}) /\ ~Skipping
    /\ Push("INVOKING_MACRO", pos)
    /\ pos' = 2
    /\ last' = Done(pos) /\ calls' = Append(calls, pos)
    /\ ReadOn /\ UNCHANGED <<text, error, rounds, astray>>

\* Variant: the caller keeps the entry (--CS_Index is forgotten).
ReturnOnly ==
    /\ pos' = stack[Len(stack)].at + 1
    /\ UNCHANGED stack
    /\ last' = [Done(End(text, 1)) EXCEPT !.to = pos']
    /\ calls' = Front(calls)

Return_From_Macro ==
    /\ pos' = stack[Len(stack)].at + 1
    /\ Pop
    /\ last' = [Done(End(text, 1)) EXCEPT !.to = pos']
    /\ calls' = Front(calls)

MacroEnds ==    \* the #end that Macro_End points to
    /\ token = "none" /\ error = "none" /\ AtMacroEnd
    /\ Return_From_Macro
    /\ ReadOn /\ UNCHANGED <<text, error, rounds, astray>>

-----------------------------------------------------------------------------
(* Get_Token has returned to the innermost loop that skips.                 *)

Frame == frames[Len(frames)]
Looks == token # "none" /\ frames # <<>> /\ error = "none"
Same == UNCHANGED <<text, pos, rounds, history>>

StillSkips == \/ Len(stack) > Frame.height
              \/ Len(stack) = Frame.height /\ Top = Frame.cond

\* Variant: the token is ungot, and got again.
SkipAgain ==
    /\ Looks /\ Frame.kind = "skip" /\ StillSkips
    /\ UNCHANGED <<token, stack, frames, Skipping, error>> /\ Same

SkipGoesOn ==
    /\ Looks /\ Frame.kind = "skip" /\ StillSkips
    /\ token' = "none"
    /\ UNCHANGED <<stack, frames, Skipping, error>> /\ Same

\* The HASH_TOKEN is used up.  Another token would be ungot: none ever ends the
\* outermost of these loops, or it stayed in "token", and parsing never ended.
SkipEnds ==
    /\ Looks /\ Frame.kind = "skip" /\ ~StillSkips
    /\ frames' = Front(frames) /\ Skipping' = Frame.prev
    /\ token' = IF token = "hash" THEN "none" ELSE token
    /\ UNCHANGED <<stack, error>> /\ Same

Left == {"WHILE", "CASE_TRUE", "INVOKING_MACRO"}

BreakGoesOn ==
    /\ Looks /\ Frame.kind = "break" /\ Top \notin Left
    /\ IF stack = <<>> THEN error' = "Invalid context for #break" /\ UNCHANGED token
                       ELSE token' = "none" /\ UNCHANGED error
    /\ UNCHANGED <<stack, frames, Skipping>> /\ Same

BreakFinds ==   \* the loop or the clause, whose rest is skipped
    /\ Looks /\ Frame.kind = "break" /\ Top \in Left \ {"INVOKING_MACRO"}
    /\ Become("SKIP_TIL_END")
    /\ frames' = Append(Front(frames), [kind |-> "skip", height |-> Len(stack),
                                        cond |-> "SKIP_TIL_END", prev |-> Frame.prev])
    /\ token' = "none"
    /\ UNCHANGED <<Skipping, error>> /\ Same

BreakReturns ==
    /\ Looks /\ Frame.kind = "break" /\ Top = "INVOKING_MACRO"
    /\ Return_From_Macro
    /\ frames' = Front(frames) /\ Skipping' = Frame.prev /\ token' = "none"
    /\ UNCHANGED <<text, error, rounds, astray>>

EndOfFile ==
    /\ token = "none" /\ error = "none" /\ pos = Len(text) + 1
    /\ IF stack # <<>>
       THEN error' = "End of file reached but #end expected." /\ UNCHANGED token
       ELSE token' = "eof" /\ UNCHANGED error
    /\ UNCHANGED <<stack, frames, Skipping>> /\ Same

-----------------------------------------------------------------------------
Next ==
    \/ ReadItem \/ SkipOpener \/ If \/ While \/ BranchOver("else") \/ BranchOver("elseif")
    \/ Else \/ Elseif \/ PassBranch \/ Switch \/ FirstCase \/ Case
    \/ EndBranch \/ EndLoop \/ Break \/ Macro \/ InvokeMacro \/ MacroEnds
    \/ SkipGoesOn \/ SkipEnds \/ BreakGoesOn \/ BreakFinds \/ BreakReturns
    \/ EndOfFile

Spec == Init /\ [][Next]_vars /\ WF_vars(Next)

-----------------------------------------------------------------------------
TypeOK ==
    /\ text \in Seq(Kinds) /\ pos \in 1..(Len(text) + 1)
    /\ stack \in Seq([type : Types, at : 1..Len(text)])
    /\ frames \in Seq([kind : {"skip", "break"}, height : Nat, cond : Types \cup {"none"},
                       prev : BOOLEAN])
    /\ token \in {"none", "start", "hash", "item", "eof"}
    /\ error \in {"none", "Invalid context for #break",
                  "End of file reached but #end expected."}
    /\ rounds \in 0..MaxRounds /\ astray \in BOOLEAN
    \* something is skipped while a loop that skips is under way, and not after
    /\ Skipping <=> frames # <<>>

\* A well-formed file is parsed without an error.
NoError == error = "none"

\* When nothing is skipped, the entries of the stack are the directives around
\* the token that is read, and the macro calls under way.
StackIsNesting ==
    ~Skipping /\ token = "none" /\ error = "none" =>
        LET in == {i \in 1..Len(stack) : stack[i].type = "INVOKING_MACRO"}
        IN  /\ {stack[i].at : i \in 1..Len(stack) \ in} =
                 UNION {Within(text, q, {"if", "while", "switch"}) :
                           q \in {pos} \cup {stack[i].at : i \in in}}
            /\ Cardinality(in) = Len(calls)

\* The state has its type, no error is raised and the stack is the nesting, for
\* as long as no #break was executed that the parser does not notice in time
\* (Unnoticed in DirectiveText, and README, section 5).
DirectivesInv == TypeOK /\ (~astray => NoError /\ StackIsNesting)

\* Items are parsed, conditions evaluated and macros called in the order that
\* the text means, up to the first #break of that kind.
Meaning == INSTANCE DirectiveMeaning
MeansWhatItSays == Meaning!Init /\ [][Meaning!Next \/ astray']_(Meaning!vars)

\* The parser comes to the end of every file whose loops end.
ParsingEnds == <>(token = "eof" \/ error # "none")
=============================================================================
