---------------------------- MODULE LineFormatter ----------------------------
(***************************************************************************)
(* How fnruntime prints a failed function's details (runner.go):           *)
(* printFnResult turns each structured result into one line               *)
(* (resultToString), printFnExecErr splits the captured stderr at every    *)
(* newline, and multiLineFormatter.String prints the lines, the first     *)
(* FnExecErrorTruncateLines of them only when truncation is on, followed  *)
(* by the count of lines it left out.  Text is abstracted to a sequence   *)
(* of tokens: words, NL for a newline and SP for a space.  Indentation,   *)
(* %q quoting and the wording of the truncation hint are left out.        *)
(***************************************************************************)
EXTENDS Naturals, Sequences
LOCAL INSTANCE SequencesExt

CONSTANTS
  Words,                     \* the words text is made of
  FnExecErrorTruncateLines,  \* the line cap of truncated output
  MaxStderr,                 \* bound on the tokens of captured stderr
  MaxResults                 \* bound on the structured results of a function

NL == "\n"
SP == " "

ASSUME NL \notin Words /\ SP \notin Words
ASSUME FnExecErrorTruncateLines \in Nat \ {0}

Text == BoundedSeq(Words \cup {NL}, MaxStderr)

(* A framework.ResultItem: severity, message, ResourceRef kind and name,  *)
(* file path; "" is an unset field.                                        *)
ResultItems ==
  [severity : {"", "error"}, message : {<<w>> : w \in Words} \cup {<<w, NL, w>> : w \in Words},
   kind : {"", "Kind"}, name : {"", "name"}, file : {"", "path"}]

(* resultToString: "[SEVERITY] message", " in object kind/name" when the   *)
(* reference has a kind, " in file path" when there is one.                *)
ResultToString(r) ==
  <<IF r.severity = "" THEN "INFO" ELSE "ERROR">> \o r.message
  \o (IF r.kind # ""
      THEN <<"in object", r.kind>> \o (IF r.name # "" THEN <<r.name>> ELSE <<>>)
      ELSE <<>>)
  \o (IF r.file # "" THEN <<"in file", r.file>> ELSE <<>>)

(* strings.Split(s, "\n"): the text between newlines, an empty text after *)
(* a trailing newline included.                                            *)
RECURSIVE Split(_)
Split(s) ==
  LET i == SelectInSeq(s, LAMBDA t : t = NL)
  IN  IF i = 0 THEN <<s>>
      ELSE <<SubSeq(s, 1, i - 1)>> \o Split(SubSeq(s, i + 1, Len(s)))

(* What String writes: a line, or the count of lines truncated.           *)
Line(s)       == [k |-> "line", text |-> s, n |-> 0]
Truncated(n)  == [k |-> "truncated", text |-> <<>>, n |-> n]

(* A slip: the line written as it is, its newlines kept.                 *)
WriteLineKeepsNewlines(s) == Line(s)

(* The write of one line: newlines inside it suppressed as spaces.        *)
WriteLine(s) == Line(ReplaceAll(s, NL, SP))

(* A slip on the loop's bound: the break taken one line late.             *)
BreakPastMax(i, max) == i > max

(* if i >= ri.MaxLines { break }                                           *)
Break(i, max) == i >= max

(* The truncating loop over ri.Lines from index i (0-based): each line    *)
(* written until the break, printedLines counting them.                    *)
RECURSIVE TruncLoop(_, _, _, _)
TruncLoop(lines, i, max, acc) ==
  IF i >= Len(lines) \/ Break(i, max) THEN acc
  ELSE TruncLoop(lines, i + 1, max,
                 [b |-> Append(acc.b, WriteLine(lines[i + 1])), printed |-> acc.printed + 1])

(* multiLineFormatter.String: MaxLines is set to FnExecErrorTruncateLines *)
(* whatever the caller gave; without truncation every line is written.    *)
Format(lines, truncate) ==
  IF ~truncate
  THEN [i \in DOMAIN lines |-> WriteLine(lines[i])]
  ELSE LET r         == TruncLoop(lines, 0, FnExecErrorTruncateLines,
                                  [b |-> <<>>, printed |-> 0])
           truncated == Len(lines) - r.printed
       IN  r.b \o (IF truncated > 0 THEN <<Truncated(truncated)>> ELSE <<>>)

NotPrinted == [printed |-> FALSE, out |-> <<>>]
Printed(o) == [printed |-> TRUE, out |-> o]

VARIABLES
  stderr,          \* fnErr.Stderr, the captured standard error
  results,         \* fnResult.Results
  truncateOutput,  \* printer.TruncateOutput
  stderrOut,       \* what printFnExecErr wrote of the stderr
  resultsOut       \* what printFnResult wrote of the results

vars == <<stderr, results, truncateOutput, stderrOut, resultsOut>>

Init ==
  /\ \/ stderr \in Text /\ results = <<>>
     \/ stderr = <<>> /\ results \in BoundedSeq(ResultItems, MaxResults)
  /\ truncateOutput \in BOOLEAN
  /\ stderrOut = NotPrinted
  /\ resultsOut = NotPrinted

(* printFnExecErr: the stderr lines, when there is any stderr.            *)
PrintFnExecErr ==
  /\ ~stderrOut.printed
  /\ stderrOut' = Printed(IF Len(stderr) > 0 THEN Format(Split(stderr), truncateOutput)
                          ELSE <<>>)
  /\ UNCHANGED <<stderr, results, truncateOutput, resultsOut>>

(* printFnResult: one line per result, when there are any.                *)
PrintFnResult ==
  /\ ~resultsOut.printed
  /\ resultsOut' = Printed(IF Len(results) > 0
                           THEN Format([i \in DOMAIN results |-> ResultToString(results[i])],
                                       truncateOutput)
                           ELSE <<>>)
  /\ UNCHANGED <<stderr, results, truncateOutput, stderrOut>>

Next == PrintFnExecErr \/ PrintFnResult

Spec == Init /\ [][Next]_vars

-----------------------------------------------------------------------------
Tokens == Words \cup {SP, "INFO", "ERROR", "in object", "Kind", "name", "in file", "path"}

OutEntries == [k : {"line"}, text : Seq(Tokens), n : {0}]
              \cup [k : {"truncated"}, text : {<<>>}, n : 1..(MaxStderr + MaxResults + 1)]

(* Types; a printed line holds no newline.                                *)
TypeOK ==
  /\ stderr \in Seq(Words \cup {NL}) /\ Len(stderr) <= MaxStderr
  /\ results \in Seq(ResultItems) /\ Len(results) <= MaxResults
  /\ truncateOutput \in BOOLEAN
  /\ \A o \in {stderrOut, resultsOut} : o.printed \in BOOLEAN /\ o.out \in Seq(OutEntries)

(* The truncation policy (spec 4.3): with truncation on, the first N      *)
(* lines and then the number of lines left out, when some are; without    *)
(* it every line; each line on one output line.                            *)
Policy(lines, truncate) ==
  LET shown == IF truncate /\ Len(lines) > FnExecErrorTruncateLines
               THEN SubSeq(lines, 1, FnExecErrorTruncateLines) ELSE lines
  IN  [i \in DOMAIN shown |-> Line(ReplaceAll(shown[i], NL, SP))]
      \o (IF Len(shown) < Len(lines) THEN <<Truncated(Len(lines) - Len(shown))>> ELSE <<>>)

(* multiLineFormatter prints exactly what the truncation policy asks for  *)
(* the lines it is given, at the boundary of the cap included: no line    *)
(* printed twice or skipped, and the count of left-out lines exact.       *)
FormatterFollowsTruncationPolicy ==
  /\ stderrOut.printed /\ Len(stderr) > 0 =>
        stderrOut.out = Policy(Split(stderr), truncateOutput)
  /\ resultsOut.printed /\ Len(results) > 0 =>
        resultsOut.out = Policy([i \in DOMAIN results |-> ResultToString(results[i])],
                                truncateOutput)

(* The lines of a text as a reader counts them: a final newline ends the  *)
(* last line, it does not start another.                                   *)
TextLines(s) ==
  IF Len(s) > 0 /\ s[Len(s)] = NL THEN Front(Split(s)) ELSE Split(s)

(* The stderr printed for a failed function is its lines, truncated by    *)
(* the policy, and the count printed is the number of stderr lines left   *)
(* out (spec 4.3 and 7: "print the first N lines followed by a count of   *)
(* elided lines").  Concerns printFnExecErr splitting stderr at "\n".     *)
StderrShownLineForLine ==
  stderrOut.printed /\ Len(stderr) > 0 =>
    stderrOut.out = Policy(TextLines(stderr), truncateOutput)
=============================================================================
