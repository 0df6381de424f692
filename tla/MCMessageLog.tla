---------------------------- MODULE MCMessageLog ----------------------------
(* Instances of MessageLog: which server and user are considered. *)
EXTENDS MessageLog

Situation(label, tagged, lines, kinds) ==
  [labels |-> label, tag |-> tagged, renames |-> FALSE, same |-> FALSE,
   sends |-> lines, items |-> kinds]

\* Two sends, with labels and without; one send on a server with neither labels
\* nor self tags; one send and a redaction; a change of nick; no send, but
\* redactions and edits, or reactions.
AnySetting ==
  { Situation(TRUE, TRUE, 2, {}), Situation(FALSE, TRUE, 2, {}),
    Situation(FALSE, FALSE, 1, {}), Situation(TRUE, TRUE, 1, {"redact"}),
    Situation(FALSE, FALSE, 0, {"redact", "edit"}), Situation(FALSE, FALSE, 0, {"react"}),
    [Situation(TRUE, TRUE, 1, {}) EXCEPT !.renames = TRUE] }

OneDeletion == { Situation(TRUE, TRUE, 0, {"redact"}) }
=============================================================================
