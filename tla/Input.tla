-------------------------------- MODULE Input --------------------------------
(***************************************************************************)
(* How the terminal reads (cli/main.py, cli/input.py): lines are gathered  *)
(* until they frame whole statements, which are then submitted together;   *)
(* words of the frontend stand alone on a line (cli/language.py).  A       *)
(* remote terminal submits to its coordinator in the same way              *)
(* (jobs/coordinator.py), where the connection may fail.                   *)
(*                                                                         *)
(* A line is a sequence of tokens: brackets "(" and ")", ";", "?" for what *)
(* does not parse as a statement, "'" for a token that never ends, and     *)
(* words, each typed once.  Comments and completion are left out.          *)
(***************************************************************************)
EXTENDS Integers, Sequences, SequencesExt

CONSTANTS
    None,
    Typing,         \* what is typed, piped, or given on the command line: lines
    Limit           \* tokens of a submission (_MAX_BYTES)

VARIABLES
    input,          \* mode, all that is typed, and the lines not yet read
    buffer,         \* the tokens gathered
    ran,            \* what was executed: tokens and exit status of each
    ending          \* closed: the terminal; status: of the last command; exit: the program's

ivars == <<input, buffer, ran, ending>>

Init ==
    /\ \E mode \in {"interactive", "piped", "command", "script"}, lines \in Typing :
        /\ mode \in {"command", "script"} => Len(lines) = 1
        /\ input = [mode |-> mode, typed |-> FlattenSeq(lines), lines |-> lines]
    /\ buffer = <<>> /\ ran = <<>>
    /\ ending = [closed |-> FALSE, status |-> 0, exit |-> None]

Running == ending.exit = None

---------------------------------------------------------------------------
(* _frame and _parse *)

Punctuation == {"(", ")", ";", "'", "?"}

Framing == [depth |-> 0, parts |-> <<>>, rest |-> <<>>, error |-> FALSE]

Token(f, t) ==
    LET next == [f EXCEPT !.rest = Append(@, t)] IN
    CASE f.error -> f
      [] t = "(" /\ ~f.error -> [next EXCEPT !.depth = @ + 1]
      [] t = ")" /\ ~f.error -> IF f.depth = 0 THEN [next EXCEPT !.error = TRUE] ELSE [next EXCEPT !.depth = @ - 1]
      [] t = "'" /\ ~f.error -> [next EXCEPT !.error = TRUE]
      [] t = ";" /\ f.depth = 0 /\ ~f.error ->
            [f EXCEPT !.rest = <<>>, !.parts = IF f.rest = <<>> THEN @ ELSE Append(@, next.rest)]
      [] OTHER -> next

Frame(tokens) == FoldLeft(Token, Framing, tokens)
Malformed(tokens) == Len(tokens) > Limit \/ Frame(tokens).error
Incomplete(tokens) == ~Malformed(tokens) /\ Frame(tokens).rest # <<>>

\* A submission that has anything wrong with it is one command, which fails.
Invalid(tokens) ==
    Malformed(tokens) \/ Incomplete(tokens) \/ Contains(FlattenSeq(Frame(tokens).parts), "?")
Commands(tokens) == IF Invalid(tokens) THEN <<tokens>> ELSE Frame(tokens).parts

---------------------------------------------------------------------------
(* Submitting *)

Ran(tokens, status) == [tokens |-> tokens, status |-> status]
Succeeded(commands) == [i \in DOMAIN commands |-> Ran(commands[i], 0)]

\* How a submission may go: some commands succeed, the next one fails or is
\* interrupted, or the last of them leaves; or the coordinator is not reached.
Outcomes(tokens) ==
    LET commands == Commands(tokens) n == Len(commands)
        upto(i) == Succeeded(SubSeq(commands, 1, i)) IN
    {[ran |-> Append(upto(i), Ran(commands[i + 1], s)), status |-> s, closed |-> FALSE] :
        i \in 0..(n - 1), s \in {2, 130}}
    \cup (IF Invalid(tokens) THEN {}
          ELSE {[ran |-> upto(n), status |-> 0, closed |-> FALSE]}
               \cup {[ran |-> upto(i), status |-> 0, closed |-> TRUE] : i \in 1..n})

\* A program that does not talk to a user stops at the first failure.
After(outcome, always) ==
    [closed |-> outcome.closed, status |-> outcome.status,
     exit |-> IF always \/ outcome.closed \/ (outcome.status # 0 /\ input.mode # "interactive")
              THEN outcome.status ELSE None]

Submitted(tokens, always) ==
    \E outcome \in Outcomes(tokens) :
        /\ ran' = ran \o outcome.ran
        /\ buffer' = <<>>
        /\ ending' = After(outcome, always)

---------------------------------------------------------------------------
(* Reading *)

Words == {<<":help">>, <<":exit">>, <<":what">>, <<"exit">>}
Read == input' = [input EXCEPT !.lines = Tail(@)]

\* frontend: a colon command is a statement of its own, other words only a hint.
Handled(line, always) ==
    \/ /\ line \in {<<":help">>, <<":exit">>}
       /\ \E outcome \in {o \in Outcomes(<<line[1], ";">>) : o.status = 0 => o.closed = (line = <<":exit">>)} :
            /\ ran' = ran \o outcome.ran
            /\ ending' = After(outcome, always)
       /\ UNCHANGED buffer
    \/ /\ line \in {<<":what">>, <<"exit">>}
       /\ ending' = After([closed |-> FALSE, status |-> 2], always)
       /\ UNCHANGED <<buffer, ran>>

Frontend ==
    /\ Running /\ input.mode # "script" /\ buffer = <<>>
    /\ input.lines # <<>> /\ Head(input.lines) \in Words
    /\ Handled(Head(input.lines), input.mode = "command")
    /\ Read

\* A line that does not complete the buffer is kept.
Line ==
    /\ Running /\ input.mode \in {"interactive", "piped"} /\ input.lines # <<>>
    /\ buffer = <<>> => Head(input.lines) \notin Words
    /\ LET tokens == buffer \o Head(input.lines) IN
       IF Incomplete(tokens) THEN buffer' = tokens /\ UNCHANGED <<ran, ending>>
       ELSE Submitted(tokens, FALSE)
    /\ Read

\* --command and --script submit what they are given.
Given ==
    /\ Running /\ input.mode \in {"command", "script"}
    /\ input.mode = "command" => Head(input.lines) \notin Words
    /\ Submitted(Head(input.lines), TRUE)
    /\ Read

\* A script that cannot be read, or is too long, is an error.
Unreadable ==
    /\ Running /\ input.mode = "script"
    /\ ending' = [ending EXCEPT !.status = 2, !.exit = 2]
    /\ UNCHANGED <<input, buffer, ran>>

\* End of input: what is gathered is submitted as it is.
EndOfInput ==
    /\ Running /\ input.mode \in {"interactive", "piped"} /\ input.lines = <<>>
    /\ IF buffer = <<>> THEN ending' = [ending EXCEPT !.exit = ending.status] /\ UNCHANGED <<buffer, ran>>
       ELSE Submitted(buffer, TRUE)
    /\ UNCHANGED input

\* Ctrl-C at the prompt: what is gathered is recorded as cancelled and cleared.
Interrupt ==
    /\ Running /\ input.mode \in {"interactive", "piped"} /\ buffer # <<>>
    /\ buffer' = <<>>
    /\ ending' = [ending EXCEPT !.exit = IF input.mode = "interactive" THEN None ELSE 130]
    /\ UNCHANGED <<input, ran>>

Next == Frontend \/ Line \/ Given \/ Unreadable \/ EndOfInput \/ Interrupt

Spec == Init /\ [][Next]_ivars

---------------------------------------------------------------------------
Count(tokens, t) == Len(SelectSeq(tokens, LAMBDA u : u = t))
Balance(tokens) == Count(tokens, "(") - Count(tokens, ")")
Text == SelectSeq(FlattenSeq([i \in DOMAIN ran |-> ran[i].tokens]), LAMBDA t : t \notin Punctuation)
Place(word) == CHOOSE i \in DOMAIN input.typed : input.typed[i] = word

\* A command that succeeded is one whole statement: its brackets are closed and
\* it ends at its only outer semicolon.  What is executed is executed once and in
\* the order it was typed, though some of it may be left out; with no user there,
\* nothing runs behind a failure, and a program that exits with 0 has executed
\* all it was given, or left when asked to (main.py:103-127, input.py:13-53).
ReadStatementByStatement ==
    /\ \A i \in DOMAIN ran : ran[i].status = 0 =>
          /\ Last(ran[i].tokens) = ";" /\ Balance(ran[i].tokens) = 0
          /\ \A j \in 1..(Len(ran[i].tokens) - 1) :
                ran[i].tokens[j] = ";" => Balance(SubSeq(ran[i].tokens, 1, j)) > 0
    /\ \A i \in 1..(Len(Text) - 1) : Place(Text[i]) < Place(Text[i + 1])
    /\ input.mode # "interactive" =>
          /\ \A i \in 1..(Len(ran) - 1) : ran[i].status = 0
          /\ ending.exit = 0 => /\ \A i \in DOMAIN ran : ran[i].status = 0
                                /\ ending.closed \/ ToSet(input.typed) \ Punctuation \subseteq ToSet(Text)
=============================================================================
