------------------------------ MODULE RecordText ------------------------------
(***************************************************************************)
(* The records that GDB prints, of a value made one step at a time, and    *)
(* what framewalk's parser reads of them.                                  *)
(***************************************************************************)
EXTENDS GdbOutput, TextItem

CONSTANT MaxDepth     \* bound on the nesting of a value

(* A value that GDB prints: a string, and what holds one or two values.    *)
Emit ==
  item = Idle /\ \E s \in Strings : item' = [kind |-> "value", depth |-> 0, value |-> [const |-> s]]

Result(name, v) == [name |-> <<name>>, value |-> v]

Wrap ==
  /\ item.kind = "value" /\ item.depth < MaxDepth
  /\ \E v \in LET u == item.value IN
         {[tuple |-> <<>>], [empty |-> <<>>], [tuple |-> <<Result("a", u)>>],
          [tuple |-> <<Result("a", u), Result("a", u)>>], [values |-> <<u, u>>],
          [results |-> <<Result("a", u), Result("b", [const |-> <<>>])>>]} :
       item' = [item EXCEPT !.depth = @ + 1, !.value = v]

-----------------------------------------------------------------------------
Records(v) ==
  [kind : {"^"}, token : {NoToken, MaxToken}, class : {<<"done">>}, results : {<<Result("a", v), Result("b", v)>>}]
    \cup [kind : {"*", "="}, token : {NoToken}, class : {<<"b">>}, results : {<<>>, <<Result("b", v)>>}]
    \cup {[kind |-> "~", text |-> v.const] : c \in {"const"} \cap DOMAIN v}

(* A list that mixes values and results, a token past u64, and a stream    *)
(* record with a token.                                                    *)
Malformed(v) ==
  {<<"^", "done", ",", "a", "=", "[">> \o PrintValue(v) \o <<",", "a", "=">> \o PrintValue(v) \o <<"]">>,
   write_u64[MaxToken + 1] \o <<"^", "done">>, write_u64[12] \o PrintRecord([kind |-> "~", text |-> <<>>])}

(* What is read of a line's first n bytes: all of the record if they are   *)
(* all of the line, else whole results from the front, or nothing.         *)
Fits(read, record, whole) ==
  IF whole THEN read.ok /\ read.value = record
  ELSE read.ok => "results" \in DOMAIN record /\ IsPrefix(read.value.results, record.results)

(* The parser reads every record that GDB prints as that record, octal     *)
(* escapes of control and UTF-8 bytes included; of a record cut short it   *)
(* reads whole results from the front or fails; it fails on lines that are *)
(* malformed (parse_record).                                               *)
RecordsArrive ==
  item.kind = "value" =>
    /\ \A r \in Records(item.value) :
         LET line == PrintRecord(r)
         IN \A n \in DOMAIN line : Fits(parse_record(SubSeq(line, 1, n)), r, n = Len(line))
    /\ \A line \in Malformed(item.value) : ~parse_record(line).ok
=============================================================================
