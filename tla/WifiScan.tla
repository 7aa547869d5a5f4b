------------------------------ MODULE WifiScan ------------------------------
(***************************************************************************)
(* What wifi_manager.py makes of nmcli's output: a line in its fields      *)
(* (_terse), and the rows of a scan, one for each channel a network is     *)
(* heard on, as one entry for each network (scan).                         *)
(***************************************************************************)
EXTENDS Naturals, Sequences, SequencesExt

CONSTANTS Esc, Sep    \* the characters '\' and ':'

\* One character of a line after those before it.
Step(s, ch) ==
    CASE s.esc      -> [s EXCEPT !.cur = Append(@, ch), !.esc = FALSE]
      [] ch = Esc   -> [s EXCEPT !.esc = TRUE]
      [] ch = Sep   -> [s EXCEPT !.fields = Append(@, s.cur), !.cur = <<>>]
      [] OTHER      -> [s EXCEPT !.cur = Append(@, ch)]

Terse(line) ==
    LET end == FoldLeft(Step, [fields |-> <<>>, cur |-> <<>>, esc |-> FALSE], line)
    IN  Append(end.fields, end.cur)

\* How nmcli writes such a line.
Escaped(field) == FlattenSeq([i \in 1..Len(field) |->
    IF field[i] \in {Esc, Sep} THEN <<Esc, field[i]>> ELSE <<field[i]>>])

Line(fields) == FoldLeft(LAMBDA l, f : l \o <<Sep>> \o Escaped(f), Escaped(Head(fields)), Tail(fields))

\* One row of a scan after those before it; best holds at most one entry of a network.
Better(best, row) ==
    LET old == {e \in best : e.ssid = row.ssid}
        heard == \E e \in old : e.current
    IN  IF \A e \in old : row.signal > e.signal
          THEN (best \ old) \cup {[row EXCEPT !.current = @ \/ heard]}
          ELSE (best \ old) \cup {[e EXCEPT !.current = @ \/ row.current] : e \in old}

Scan(rows) == FoldLeft(Better, {}, rows)

=============================================================================
