------------------------------ MODULE AuditChain ------------------------------
(***************************************************************************)
(* The bytes of an audit file, and what packages/local-audit computes from *)
(* them: the hash the next event chains to (readLastIntegrityHash), the    *)
(* digest of an event (computeAuditHash), the effect of appending a line   *)
(* (appendFile) and the verdict of verifyAuditLog.                         *)
(*                                                                         *)
(* A file is a sequence of lines and a flag, open, that says the last line *)
(* has no newline yet.  A line is one JSON text.  A line that does not     *)
(* parse (a torn write, or two texts run together) is Garbage.  A hash is  *)
(* the pair of the content it was computed over and the content the        *)
(* previous hash was computed over: different inputs give different        *)
(* hashes, the one thing the code relies on sha256 for.                    *)
(***************************************************************************)
EXTENDS Integers, Sequences

CONSTANT NoEvent    \* the content of a line that is not an audit event

NoHash == <<NoEvent, NoEvent>>      \* previousHash: null, or no integrity field

Garbage == [ev |-> NoEvent, prev |-> NoHash, hash |-> NoHash]

Parses(line)       == line # Garbage
HasIntegrity(line) == line.hash # NoHash

EmptyLog == [lines |-> <<>>, open |-> FALSE]

-----------------------------------------------------------------------------
(* Writing.                                                                *)

(* toCanonicalValue leaves out every key named "hash", at any depth: the   *)
(* digest of an event does not depend on what such a key holds.            *)
Canonical(ev) == [key \in DOMAIN ev \ {"hash"} |-> ev[key]]

Digest(ev, prev) == <<Canonical(ev), prev[1]>>

PlainLine(ev) == [ev |-> ev, prev |-> NoHash, hash |-> NoHash]

\* A line whose two hashes are swapped.
ChainedLineSwapped(ev, prev) == [ev |-> ev, prev |-> Digest(ev, prev), hash |-> prev]

ChainedLine(ev, prev) == [ev |-> ev, prev |-> prev, hash |-> Digest(ev, prev)]

\* A reader that starts a new chain where the last line has no integrity.
ReadLastLenient(lines) ==
    [ok |-> TRUE, hash |-> IF lines = <<>> THEN NoHash ELSE lines[Len(lines)].hash]

\* A reader that takes the first line for the last.
ReadLastFirst(lines) ==
    [ok |-> TRUE, hash |-> IF lines = <<>> THEN NoHash ELSE lines[1].hash]

(* readLastIntegrityHash over a file that was read: ok is FALSE where it   *)
(* throws, on a last line that does not parse or carries no integrity.     *)
ReadLast(lines) ==
    IF lines = <<>>
    THEN [ok |-> TRUE, hash |-> NoHash]
    ELSE [ok |-> HasIntegrity(lines[Len(lines)]), hash |-> lines[Len(lines)].hash]

(* How much of a line reaches the file before appendFile settles.          *)
Cut == {"nothing", "partial", "unterminated", "whole"}

\* A write that replaces the file instead of extending it.
LandTruncating(log, line, cut) ==
    IF cut = "nothing" THEN log ELSE [lines |-> <<line>>, open |-> cut # "whole"]

\* A write that opens a line before it has written anything.
LandOpening(log, line, cut) ==
    [lines |-> IF cut = "nothing" THEN log.lines ELSE Append(log.lines, line),
     open  |-> cut # "whole"]

(* The file after appendFile wrote that much of line.  Text written after  *)
(* an open line becomes part of it, and the two together do not parse.     *)
Land(log, line, cut) ==
    CASE cut = "nothing" -> log
      [] cut # "nothing" /\ log.open ->
            [lines |-> [log.lines EXCEPT ![Len(log.lines)] = Garbage],
             open  |-> cut # "whole"]
      [] cut # "nothing" /\ ~log.open ->
            [lines |-> Append(log.lines, IF cut = "partial" THEN Garbage ELSE line),
             open  |-> cut # "whole"]

-----------------------------------------------------------------------------
(* Verifying.                                                              *)

\* A verifier that never compares previousHash with the line before.
LineVerifiesAlone(lines, i) ==
    /\ Parses(lines[i])
    /\ HasIntegrity(lines[i])
    /\ lines[i].hash = Digest(lines[i].ev, lines[i].prev)

(* The checks verifyAuditLog makes of line i, in its order; previousHash   *)
(* is the hash of the line before, or null.                                *)
LineVerifies(lines, i) ==
    /\ Parses(lines[i])
    /\ HasIntegrity(lines[i])
    /\ lines[i].prev = (IF i = 1 THEN NoHash ELSE lines[i - 1].hash)
    /\ lines[i].hash = Digest(lines[i].ev, lines[i].prev)

\* A verifier that goes on after a failure and reports the last one.
VerifyReportingLast(lines) ==
    LET failing == {i \in DOMAIN lines : ~LineVerifies(lines, i)}
    IN  [valid |-> failing = {},
         firstInvalidLine |->
            IF failing = {} THEN 0 ELSE CHOOSE i \in failing : \A j \in failing : j <= i]

(* verifyAuditLog: valid, or the first line that fails a check.            *)
Verify(lines) ==
    [valid |-> \A i \in DOMAIN lines : LineVerifies(lines, i),
     firstInvalidLine |->
        IF \A i \in DOMAIN lines : LineVerifies(lines, i)
        THEN 0
        ELSE CHOOSE i \in DOMAIN lines :
                /\ ~LineVerifies(lines, i)
                /\ \A j \in 1 .. i - 1 : LineVerifies(lines, j)]

=============================================================================
