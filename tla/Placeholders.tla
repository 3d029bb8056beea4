------------------------------- MODULE Placeholders -------------------------------
(***************************************************************************)
(* toPg (server/pg-db.ts): the statements of the code are written with the *)
(* `?` of SQLite, PostgreSQL numbers its parameters $1, $2, ...  The loop  *)
(* looks at one character after the other and skips quoted text, in which  *)
(* a doubled quote stands for a quote.  A character is ', ", ? or any      *)
(* other; what is written is a character, or `$` and a number.             *)
(* Definitions named X_Fault are faulty variants of X, used by no action.  *)
(***************************************************************************)
EXTENDS Naturals, Sequences, FiniteSets

CONSTANT Statements     \* the texts that are converted

Quotes == {"'", "\""}
Chars == Quotes \cup {"?", "x"}

StatementsAssumption == Statements \subseteq Seq(Chars)

VARIABLES
    sql,
    i,          \* characters read
    index,      \* placeholders numbered
    quote,      \* the quote that is open, or none
    output

vars == <<sql, i, index, quote, output>>

Init ==
    /\ sql \in Statements
    /\ i = 0
    /\ index = 0
    /\ quote = "none"
    /\ output = << >>

char == sql[i + 1]

\* A character that is copied, and a parameter.
Copy(c) == [char |-> c, number |-> 0]
Number(n) == [char |-> "$", number |-> n]

\* sql[i + 1] === quote, after the closing quote.
Doubled == i + 2 <= Len(sql) /\ sql[i + 2] = quote

Quoted ==
    /\ i < Len(sql)
    /\ quote # "none"
    /\ char # quote
    /\ output' = Append(output, Copy(char))
    /\ i' = i + 1
    /\ UNCHANGED <<sql, index, quote>>

DoubledQuote ==
    /\ i < Len(sql)
    /\ quote # "none"
    /\ char = quote
    /\ Doubled
    /\ output' = Append(Append(output, Copy(char)), Copy(char))
    /\ i' = i + 2
    /\ UNCHANGED <<sql, index, quote>>

ClosingQuote ==
    /\ i < Len(sql)
    /\ quote # "none"
    /\ char = quote
    /\ ~Doubled
    /\ output' = Append(output, Copy(char))
    /\ quote' = "none"
    /\ i' = i + 1
    /\ UNCHANGED <<sql, index>>

OpeningQuote ==
    /\ i < Len(sql)
    /\ quote = "none"
    /\ char \in Quotes
    /\ quote' = char
    /\ output' = Append(output, Copy(char))
    /\ i' = i + 1
    /\ UNCHANGED <<sql, index>>

\* `$${++index}`
Numbered_PostIncrement == index
Numbered == index + 1

Placeholder ==
    /\ i < Len(sql)
    /\ quote = "none"
    /\ char = "?"
    /\ index' = index + 1
    /\ output' = Append(output, Number(Numbered))
    /\ i' = i + 1
    /\ UNCHANGED <<sql, quote>>

Other ==
    /\ i < Len(sql)
    /\ quote = "none"
    /\ char \notin Quotes \cup {"?"}
    /\ output' = Append(output, Copy(char))
    /\ i' = i + 1
    /\ UNCHANGED <<sql, index, quote>>

Next ==
    Quoted \/ DoubledQuote \/ ClosingQuote \/ OpeningQuote \/ Placeholder \/ Other

Spec == Init /\ [][Next]_vars

-------------------------------------------------------------------------------
(* Properties *)

\* The reference: a quote opens a literal when none is open and closes the one
\* it opened.  A doubled quote closes a literal and opens the next at once,
\* which leaves no character between them: no look-ahead is needed.
After(open, c) ==
    IF open = "none" THEN (IF c \in Quotes THEN c ELSE "none")
                     ELSE (IF c = open THEN "none" ELSE open)

\* Which quote is open after each of the characters read: there is one answer.
Openings ==
    {open \in [0..i -> Quotes \cup {"none"}] :
        /\ open[0] = "none"
        /\ \A k \in 1..i : open[k] = After(open[k - 1], sql[k])}

\* The positions of the `?` that are parameters.
Parameters(open) == {k \in 1..i : sql[k] = "?" /\ open[k - 1] = "none"}

\* What PostgreSQL is to be sent: the n-th parameter is the n-th argument.
Converted(open) ==
    [k \in 1..i |->
        IF k \in Parameters(open)
        THEN Number(Cardinality({l \in Parameters(open) : l <= k}))
        ELSE Copy(sql[k])]

\* Every variable holds a value the code can give it; the output is as long as
\* the text that was read, a number counting as one character.
TypeOK ==
    /\ sql \in Statements
    /\ i \in 0..Len(sql)
    /\ index \in 0..i
    /\ quote \in Quotes \cup {"none"}
    /\ Len(output) = i

\* Each parameter gets its number, text in quotes is left alone and nothing
\* else is changed, as far as the loop has come; and the loop is inside a
\* literal exactly when the text is.
PlaceholdersNumbered ==
    \E open \in Openings : quote = open[i] /\ output = Converted(open)
===============================================================================
