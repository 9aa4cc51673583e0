------------------------------- MODULE Inspector -------------------------------
(* The database inspector (packages/db-inspector): the guard that lets one   *)
(* reading statement through, and the query that runs it, with one receipt   *)
(* each.  A text is a sequence of characters; a word that matters is one     *)
(* letter long.                                                               *)
EXTENDS Naturals, Sequences, FiniteSets, SequencesExt

CONSTANTS
    None,
    Alphabets, MaxPieces,   \* the pieces a text is made of, and how many
    MaxRows, MaxTimeout,    \* MAX_ROW_LIMIT, MAX_STATEMENT_TIMEOUT_MS
    Limits, Timeouts        \* what callers ask for

VARIABLES
    stmt,        \* the text of a query, the alphabet it is made of, and its pieces
    inspection,  \* the query in progress: how far it is, what it was asked, what came back
    tx,          \* external: the transaction of the executor's session, its statement timeout
    receipts     \* the receipts handed to audit for this query, with what the query had done

textVars  == <<stmt>>
queryVars == <<inspection, tx, receipts>>

-----------------------------------------------------------------------------
(* Scanning                                                                 *)

Space     == {" ", "\n"}
Digit     == {"1"}
Letter    == {"S", "W", "D", "A", "R", "n", "M", "E", "N", "U"}
WordChar  == Letter \cup Digit
Banned    == {"D"}    \* BANNED_WORDS

At(s, i) == IF i \in DOMAIN s THEN s[i] ELSE None
Raw(s, i, end) == SubSeq(s, i, end - 1)
First(S, otherwise) == IF S = {} THEN otherwise ELSE CHOOSE i \in S : \A j \in S : i <= j

\* where a run of the characters in cs ends; where t is next found, 0 when it is not
Run(s, i, cs) == First({j \in i .. Len(s) : s[j] \notin cs}, Len(s) + 1)
IndexOf(s, t, i) == First({j \in i .. Len(s) + 1 - Len(t) : Raw(s, j, j + Len(t)) = t}, 0)

\* scanQuoted, scanIdent: the end of what the quote at i opens, 0 when it has none
QuoteEnd(s, i, backslash) ==
    LET end[j \in 1 .. Len(s) + 2] ==
            IF j > Len(s) THEN 0
            ELSE IF backslash /\ s[j] = "\\" THEN end[j + 1 + (IF j < Len(s) THEN 1 ELSE 0)]
            ELSE IF s[j] # s[i] THEN end[j + 1]
            ELSE IF At(s, j + 1) = s[i] THEN end[j + 2] ELSE j + 1
    IN end[i + 1]

\* stringPrefix
PrefixLength(s, i) ==
    IF s[i] \in {"E", "N"} /\ At(s, i + 1) = "'" THEN 1
    ELSE IF s[i] = "U" /\ At(s, i + 1) = "&" /\ At(s, i + 2) = "'" THEN 2 ELSE 0

\* scanBlock: comments nest
BlockEnd(s, i) ==
    LET end[j \in 1 .. Len(s) + 2, depth \in 0 .. Len(s)] ==
            IF depth = 0 THEN j
            ELSE IF j > Len(s) THEN 0
            ELSE IF s[j] = "/" /\ At(s, j + 1) = "*" THEN end[j + 2, depth + 1]
            ELSE IF s[j] = "*" /\ At(s, j + 1) = "/" THEN end[j + 2, depth - 1]
            ELSE end[j + 1, depth]
    IN end[i + 2, 1]

\* scanNumber
NumberEnd(s, i) ==
    LET whole == Run(s, IF s[i] = "." THEN i + 1 ELSE i, Digit)
        point == IF At(s, whole) = "." /\ s[i] # "." THEN Run(s, whole + 1, Digit) ELSE whole
        exp   == IF At(s, point + 1) \in {"-"} THEN point + 2 ELSE point + 1
    IN IF At(s, point) = "E" /\ At(s, exp) \in Digit THEN Run(s, exp, Digit) ELSE point

Token(k, end) == [k |-> k, end |-> end]
Ends(k, end)  == IF end = 0 THEN Token("error", 0) ELSE Token(k, end)

\* scanDollar
Dollar(s, i) ==
    LET tagEnd == Run(s, i + 1, WordChar)
        close(tag) == IndexOf(s, tag, i + Len(tag))
        string(tag) == Ends("string", IF close(tag) = 0 THEN 0 ELSE close(tag) + Len(tag))
    IN CASE At(s, i + 1) = "$" -> string(<<"$", "$">>)
         [] At(s, i + 1) \in Digit -> Token("param", Run(s, i + 1, Digit))
         [] At(s, i + 1) \in Letter /\ At(s, tagEnd) = "$" -> string(Raw(s, i, tagEnd + 1))
         [] OTHER -> Token("error", 0)

\* the token that starts at i
NextToken(s, i) ==
    LET c == s[i]  d == At(s, i + 1)  p == PrefixLength(s, i) IN
    CASE c \in Space -> Token("ws", Run(s, i, Space))
      [] c = "-" /\ d = "-" -> Token("line", First({j \in i .. Len(s) : s[j] = "\n"}, Len(s) + 1))
      [] c = "/" /\ d = "*" -> Ends("block", BlockEnd(s, i))
      [] c = "\"" -> Ends("ident", QuoteEnd(s, i, FALSE))
      [] c = "'" -> Ends("string", QuoteEnd(s, i, FALSE))
      [] p > 0 -> Ends("string", QuoteEnd(s, i + p, c \in {"E", "U"}))
      [] c = "$" -> Dollar(s, i)
      [] c \in Digit \/ (c = "." /\ d \in Digit) -> Token("number", NumberEnd(s, i))
      [] c \in Letter /\ p = 0 -> Token("word", Run(s, i, WordChar))
      [] c = "é" -> Token("error", 0)
      [] OTHER -> Token(IF c \in {"(", ")", "[", "]", ",", ";"} THEN c ELSE "op", i + 1)

\* scan: the tokens with what they are written as, None when the text is refused
Scan(s) ==
    LET rest[i \in 1 .. Len(s) + 1] ==
            LET from(t) == IF t.k = "error" THEN <<t>>
                           ELSE <<[k |-> t.k, raw |-> Raw(s, i, t.end)]>> \o rest[t.end]
            IN IF i > Len(s) THEN <<>> ELSE from(NextToken(s, i))
        unlessError(tokens) == IF tokens # <<>> /\ Last(tokens).k = "error" THEN None ELSE tokens
    IN unlessError(rest[1])

-----------------------------------------------------------------------------
(* guardSelectOnly                                                          *)

Comment(t)     == t.k \in {"line", "block"}
Significant(t) == t.k # "ws" /\ ~Comment(t)
IsWord(t, w)   == t.k = "word" /\ t.raw = <<w>>
Forbidden(t)   == \E w \in Banned : IsWord(t, w)

\* commentHidesWrite
HidesWrite(s) ==
    \E i \in DOMAIN s :
       \/ s[i] = ";"
       \/ s[i] \in Banned /\ At(s, i - 1) \notin WordChar /\ At(s, i + 1) \notin WordChar

\* how deep the first n tokens are in what open and close bracket
Depth(b, n, open, close) ==
    Cardinality({i \in 1 .. n : b[i].k = open}) - Cardinality({i \in 1 .. n : b[i].k = close})
Balanced(b, open, close) ==
    /\ \A n \in DOMAIN b : Cardinality({i \in 1 .. n : b[i].k = close}) <= Cardinality({i \in 1 .. n : b[i].k = open})
    /\ b # <<>> => Depth(b, Len(b), open, close) = 0

\* skipBalanced, on balanced tokens
AfterParen(b, i) == First({n \in i .. Len(b) : Depth(b, n, "(", ")") = Depth(b, i, "(", ")") - 1}, Len(b)) + 1

Kind(b, i)      == IF i \in DOMAIN b THEN b[i].k ELSE None
WordAt(b, i, w) == i \in DOMAIN b /\ IsWord(b[i], w)

\* One query of a WITH: its name, its columns, AS, NOT MATERIALIZED, its body; 0 when it is
\* not one, or where what follows it starts.
AfterQuery(b, i) ==
    LET columns == IF Kind(b, i + 1) = "(" THEN AfterParen(b, i + 1) ELSE i + 1
        hint == columns + 1
        body == IF WordAt(b, hint, "n") THEN hint + 2 ELSE IF WordAt(b, hint, "M") THEN hint + 1 ELSE hint
    IN IF /\ Kind(b, i) \in {"word", "ident"} /\ WordAt(b, columns, "A")
          /\ WordAt(b, hint, "n") => WordAt(b, hint + 1, "M")
          /\ Kind(b, body) = "("
       THEN AfterParen(b, body) ELSE 0

\* assertWithSelect
EndsInSelect(b) ==
    LET main[i \in 0 .. Len(b) + 1] ==
            IF i = 0 THEN 0
            ELSE LET next == AfterQuery(b, i) IN IF Kind(b, next) = "," THEN main[next + 1] ELSE next
    IN WordAt(b, main[IF WordAt(b, 2, "R") THEN 3 ELSE 2], "S")

Trimmed(s) ==
    LET inner == {i \in DOMAIN s : s[i] \notin Space}
    IN IF inner = {} THEN <<>>
       ELSE SubSeq(s, First(inner, 1), CHOOSE i \in inner : \A j \in inner : j <= i)

\* renderStatement
Rendered(tokens) ==
    LET last == {i \in DOMAIN tokens : Significant(tokens[i]) /\ \A j \in i + 1 .. Len(tokens) : ~Significant(tokens[j])}
        written(i) == IF Comment(tokens[i]) THEN <<" ">>
                      ELSE IF i \in last /\ tokens[i].k = ";" THEN <<>> ELSE tokens[i].raw
    IN Trimmed(FlattenSeq([i \in DOMAIN tokens |-> written(i)]))

\* what is significant, but for a semicolon at the end
Statement(all) == IF all # <<>> /\ Last(all).k = ";" THEN Front(all) ELSE all

Permitted(body) ==
    /\ body # <<>>
    /\ \A i \in DOMAIN body : body[i].k \notin {";", "param"} /\ ~Forbidden(body[i])
    /\ Balanced(body, "(", ")") /\ Balanced(body, "[", "]")
    /\ IsWord(body[1], "S") \/ (IsWord(body[1], "W") /\ EndsInSelect(body))

\* The statement that may run, None when the text is refused.
Guarded(s) ==
    LET render(tokens) ==
            IF /\ tokens # None
               /\ \A i \in DOMAIN tokens : tokens[i].k # "line" /\ (tokens[i].k = "block" => ~HidesWrite(tokens[i].raw))
               /\ Permitted(Statement(SelectSeq(tokens, Significant)))
            THEN Rendered(tokens) ELSE None
    IN render(Scan(s))

\* wrappedSelect
Before == <<"S", " ", "*", " ", "F", "(">>
After  == <<")", " ", "A", " ", "L", "$", "1">>
Wrapped(s) == Before \o s \o After

TextInit == \E a \in Alphabets : stmt = [text |-> <<>>, of |-> a, pieces |-> 0]
TextNext ==
    /\ stmt.pieces < MaxPieces
    /\ \E p \in stmt.of : stmt' = [stmt EXCEPT !.text = @ \o p, !.pieces = @ + 1]

-----------------------------------------------------------------------------
(* inspectReadonly and runInspectQuery.  The executor is one session of the *)
(* database; a step may fail, and the session may be lost with it.          *)

NoInspection == [at |-> "idle", limit |-> None, timeout |-> None, passes |-> FALSE, began |-> FALSE,
                 ran |-> None, rows |-> None, committed |-> FALSE, result |-> None]
NoTx == [open |-> FALSE, aborted |-> FALSE, readOnly |-> FALSE, timeout |-> None, lost |-> FALSE]

QueryInit ==
    /\ inspection = NoInspection /\ receipts = <<>>
    /\ tx = [NoTx EXCEPT !.lost = TRUE]

\* limitReason
InLimits(limit, timeout) == limit \in 1 .. MaxRows /\ timeout \in 1 .. MaxTimeout

\* audit writes the receipt, and may throw; the query is over either way.
Audit(i, outcome, result) ==
    /\ receipts' = Append(receipts, [outcome |-> outcome, count |-> IF outcome = "completed" THEN i.rows ELSE None])
    /\ \E r \in {result, "threw"} : inspection' = [i EXCEPT !.at = "over", !.result = r]

\* A query of a caller with a URL or without, through inspectReadonly or on the executor at hand.
Ask(hasUrl, ownExecutor, limit, timeout, passes) ==
    /\ inspection.at = "idle"
    /\ UNCHANGED tx
    /\ LET i == [NoInspection EXCEPT !.limit = limit, !.timeout = timeout, !.passes = passes]
       IN IF ~ownExecutor /\ ~hasUrl
          THEN inspection' = [i EXCEPT !.at = "over", !.result = "threw"] /\ UNCHANGED receipts
          ELSE IF ~InLimits(limit, timeout) \/ ~passes THEN Audit(i, "rejected", "refused")
          ELSE /\ inspection' = [i EXCEPT !.at = IF ownExecutor THEN "begin" ELSE "connect"]
               /\ UNCHANGED receipts

Connect ==
    /\ inspection.at = "connect"
    /\ \/ tx' = NoTx /\ inspection' = [inspection EXCEPT !.at = "begin"] /\ UNCHANGED receipts
       \/ Audit(inspection, "failed", "refused") /\ UNCHANGED tx

\* external: a statement on the session: done when it is there and its transaction is not aborted;
\* a failure aborts the transaction, or loses the session and the transaction with it.
Done(then)  == ~tx.lost /\ ~tx.aborted /\ tx' = then
Failed      == tx' \in {[tx EXCEPT !.aborted = tx.open], [NoTx EXCEPT !.lost = TRUE]}

\* BEGIN READ ONLY, the timeout, the query, COMMIT: one after the other, to the catch at a failure.
Begin ==
    /\ inspection.at = "begin" /\ UNCHANGED receipts
    /\ \/ Done([tx EXCEPT !.open = TRUE, !.readOnly = TRUE]) /\ inspection' = [inspection EXCEPT !.at = "timeout", !.began = TRUE]
       \/ Failed /\ inspection' = [inspection EXCEPT !.at = "caught"]

SetTimeout ==
    /\ inspection.at = "timeout" /\ UNCHANGED receipts
    /\ \/ Done([tx EXCEPT !.timeout = inspection.timeout]) /\ inspection' = [inspection EXCEPT !.at = "query"]
       \/ Failed /\ inspection' = [inspection EXCEPT !.at = "caught"]

\* The executor returns rows, as many as it likes, or something else.
Query ==
    /\ inspection.at = "query" /\ UNCHANGED receipts
    /\ \/ /\ Done(tx)
          /\ \E n \in 0 .. MaxRows + 1, at \in {"commit", "caught"} :
                inspection' = [inspection EXCEPT !.at = at, !.ran = [readOnly |-> tx.readOnly, timeout |-> tx.timeout],
                                                 !.rows = IF at = "commit" THEN n ELSE None]
       \/ Failed /\ inspection' = [inspection EXCEPT !.at = "caught"]

\* slice(0, rowLimit); an audit that throws is not answered by another receipt
Commit ==
    /\ inspection.at = "commit"
    /\ LET kept == [inspection EXCEPT !.rows = IF @ < inspection.limit THEN @ ELSE inspection.limit, !.committed = TRUE]
       IN \/ Done(NoTx) /\ Audit(kept, "completed", "ok")
          \/ Failed /\ inspection' = [inspection EXCEPT !.at = "caught", !.rows = None] /\ UNCHANGED receipts

\* The rollback of what began, which may fail too.
Catch ==
    /\ inspection.at = "caught"
    /\ IF inspection.began THEN tx' = (IF tx.lost THEN tx ELSE NoTx) \/ Failed ELSE UNCHANGED tx
    /\ Audit(inspection, "failed", "refused")

\* The next one.
Again ==
    /\ inspection.at = "over"
    /\ inspection' = NoInspection /\ receipts' = <<>>
    /\ UNCHANGED tx

QueryNext ==
    \/ \E hasUrl \in BOOLEAN, own \in BOOLEAN, l \in Limits, t \in Timeouts, p \in BOOLEAN : Ask(hasUrl, own, l, t, p)
    \/ Connect \/ Begin \/ SetTimeout \/ Query \/ Commit \/ Catch \/ Again

-----------------------------------------------------------------------------
TypeOK ==
    /\ inspection.at \in {"idle", "connect", "begin", "timeout", "query", "commit", "caught", "over"}
    /\ inspection.result \in {None, "ok", "refused", "threw"}
    /\ Len(receipts) <= 1

\* Whatever the guard lets through, the statement wrapped in the inspector's own SELECT is read, by the
\* guard's rules, as the statement between the wrapper's tokens: the row limit is neither quoted nor
\* commented away, nothing in it is forbidden, its parentheses stay inside, and it selects something
\* outside of them (guard.ts:4-6).
WrapperHolds ==
    LET tokens(text) == SelectSeq(Scan(text), Significant)
        within(whole, head, inner, tail) ==
            /\ whole = head \o inner \o tail
            /\ \A i \in DOMAIN inner : ~Forbidden(inner[i]) /\ inner[i].k # ";"
            /\ \A n \in Len(head) .. Len(head) + Len(inner) : Depth(whole, n, "(", ")") >= 1
            /\ \E i \in DOMAIN inner : IsWord(inner[i], "S") /\ Depth(inner, i, "(", ")") = 0
        uncommented(all) == ~\E i \in DOMAIN all : Comment(all[i])
        holds(st) == st # None =>
            /\ Scan(Wrapped(st)) # None
            /\ within(tokens(Wrapped(st)), tokens(Before), tokens(st), tokens(After))
            /\ uncommented(Scan(st))
    IN holds(Guarded(stmt.text))

\* What the guard let through it lets through again, unchanged.
GuardIsStable ==
    LET stable(st) == st # None => Guarded(st) = st IN stable(Guarded(stmt.text))

\* A query that is over left one receipt, unless no URL was set; one that completed ran read only under
\* its own timeout and was committed, and no more rows than asked for came back (runInspectQuery).
OneReceiptEach ==
    /\ Len(receipts) <= 1
    /\ inspection.at = "over" /\ receipts = <<>> => inspection.result = "threw" /\ inspection.ran = None
    /\ inspection.ran # None => inspection.ran.readOnly /\ inspection.ran.timeout = inspection.timeout
    /\ receipts # <<>> /\ receipts[1].outcome = "completed" =>
           inspection.committed /\ inspection.ran # None /\ receipts[1].count <= inspection.limit
    /\ inspection.result = "ok" => receipts # <<>> /\ receipts[1].outcome = "completed"

\* A transaction left open outlives its query only in a session whose statement failed.
NoOpenTransaction == inspection.at = "over" /\ tx.open => tx.aborted
=============================================================================
