------------------------------- MODULE MiParser -------------------------------
(***************************************************************************)
(* The MI codec: the parser of one line of GDB's output, from its values   *)
(* up.  Every parser reads line from a position on.                        *)
(***************************************************************************)
EXTENDS MiCodec

CONSTANT MaxToken     \* u64::MAX

ASSUME CodecAssumption == MaxToken \in Nat

(* The operator "?": a failed read fails its reader.                       *)
Then(read, Goes(_)) == IF read.ok THEN Goes(read) ELSE Fail

Identifier == Words \cup {"-", "_"} \cup DOMAIN AnyHex

looks_like_result(line, at) ==
  Peek(line, at) \in Identifier /\ Peek(line, Run(line, at, Identifier)) = "="

RECURSIVE parse_value(_, _), parse_result(_, _), ItemsFrom(_, _, _, _, _)

(* The items of a tuple or a list up to its closing bracket.               *)
ItemsFrom(line, at, closing, named, items) ==
  LET Separated(item) ==
        LET more == Append(items, item.value)
            next == item.at + 1
        IN CASE Peek(line, item.at) = closing -> Ok(next, more)
             [] Peek(line, item.at) = "," ->
                  IF closing = "]" /\ looks_like_result(line, next) # named THEN Fail
                  ELSE ItemsFrom(line, next, closing, named, more)
             [] OTHER -> Fail
  IN Then(IF named THEN parse_result(line, at) ELSE parse_value(line, at), Separated)

parse_result(line, at) ==
  LET end == Run(line, at, Identifier)
      Pair(v) == Ok(v.at, [name |-> SubSeq(line, at, end - 1), value |-> v.value])
  IN IF end = at \/ Peek(line, end) # "=" THEN Fail ELSE Then(parse_value(line, end + 1), Pair)

parse_tuple(line, at) ==
  IF Peek(line, at + 1) = "}" THEN Ok(at + 2, [tuple |-> <<>>])
  ELSE Then(ItemsFrom(line, at + 1, "}", TRUE, <<>>), LAMBDA items : Ok(items.at, [tuple |-> items.value]))

parse_list(line, at) ==
  LET named == looks_like_result(line, at + 1)
      List(items) == Ok(items.at, IF named THEN [results |-> items.value] ELSE [values |-> items.value])
  IN IF Peek(line, at + 1) = "]" THEN Ok(at + 2, [empty |-> <<>>])
     ELSE Then(ItemsFrom(line, at + 1, "]", named, <<>>), List)

parse_value(line, at) ==
  CASE Peek(line, at) = "QUOTE" -> Then(parse_cstring(line, at), LAMBDA c : Ok(c.at, [const |-> c.value]))
    [] Peek(line, at) = "{" -> parse_tuple(line, at)
    [] Peek(line, at) = "[" -> parse_list(line, at)
    [] OTHER -> Fail

RECURSIVE parse_trailing_results(_, _, _)
parse_trailing_results(line, at, results) ==
  LET Rest(result) == parse_trailing_results(line, result.at, Append(results, result.value))
  IN CASE Peek(line, at) = "end" -> Ok(at, results)
       [] Peek(line, at) = "," -> Then(parse_result(line, at + 1), Rest)
       [] OTHER -> Fail

(* ResultClass::from_bytes.                                                *)
ResultClasses == {"done", "running", "connected", "error", "exit"}

(* checked_mul and checked_add: what does not fit is an error.             *)
parse_optional_token(line) ==
  LET end == Run(line, 1, DOMAIN Digit)
      number == FoldLeft(LAMBDA n, d : Least(10 * n + Digit[d], MaxToken + 1), 0, SubSeq(line, 1, end - 1))
  IN IF number > MaxToken THEN Fail ELSE Ok(end, IF end = 1 THEN NoToken ELSE number)

(* A record of a class that ends at end, with its results.                 *)
RecordFrom(line, at, end, kind, token) ==
  LET Record(r) == Ok(r.at, [kind |-> kind, token |-> token, class |-> SubSeq(line, at, end - 1),
                             results |-> r.value])
  IN IF end = at THEN Fail ELSE Then(parse_trailing_results(line, end, <<>>), Record)

parse_result_record(line, at, token) ==
  IF Peek(line, at) \in ResultClasses THEN RecordFrom(line, at, at + 1, "^", token) ELSE Fail

parse_async_record(line, at, kind, token) == RecordFrom(line, at, Run(line, at, Identifier), kind, token)

parse_stream_record(line, at, kind) ==
  LET Whole(text) == IF text.at = Len(line) + 1 THEN Ok(text.at, [kind |-> kind, text |-> text.value]) ELSE Fail
  IN Then(parse_cstring(line, at), Whole)

parse_record(line) ==
  LET Tokened(token) ==
        LET prefix == Peek(line, token.at)
            next == token.at + 1
        IN CASE prefix = "^" -> parse_result_record(line, next, token.value)
             [] prefix \in {"*", "+", "="} -> parse_async_record(line, next, prefix, token.value)
             [] prefix \in {"~", "@", "&"} ->
                  IF token.value = NoToken THEN parse_stream_record(line, next, prefix) ELSE Fail
             [] OTHER -> Fail
  IN Then(parse_optional_token(line), Tokened)
=============================================================================
