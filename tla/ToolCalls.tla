------------------------------ MODULE ToolCalls ------------------------------
(***************************************************************************)
(* Calls of the semantic tools: the command that each makes of its         *)
(* arguments, as GDB reads it.                                             *)
(***************************************************************************)
EXTENDS Tools, TextItem

CONSTANT Callable     \* the names of the tools that are called

ASSUME CallAssumption == Callable \subseteq DOMAIN ALL_TOOL_SPECS

(* A tool call.                                                            *)
Call ==
  /\ item = Idle
  /\ \E tool \in Callable : \E args \in ArgsOf(ALL_TOOL_SPECS[tool]) :
       item' = [kind |-> "call", tool |-> tool, args |-> args]

-----------------------------------------------------------------------------
ValuedIn(cmd) == {cmd.options[i].name : i \in {j \in DOMAIN cmd.options : cmd.options[j].value # NoValue}}

(* What the reference of a tool calls unused: for types only the name and  *)
(* the number of the results, for modules only the name is of use          *)
(* (resources/reference-symbols.md:33-35, 63-64).                          *)
Unused(tool) ==
  (IF tool \in {"symbol_info_types", "symbol_info_modules"} THEN {"type_regexp", "include_nondebug"} ELSE {})
    \cup (IF tool = "symbol_info_modules" THEN {"max_results"} ELSE {})

(* The texts among the arguments of a call that are of use.                *)
TextsOf(tool, spec, args) ==
  LET Given(i) == CASE i.how \in {"param", "with"} -> {args[i.arg]} \ {Absent}
                    [] i.how \in {"each", "quoted"} -> ToSet(args[i.arg])
                    [] OTHER -> {}
      Used == {k \in DOMAIN Items(spec) : Items(spec)[k].arg \notin Unused(tool)}
  IN UNION {Given(Items(spec)[k]) : k \in Used}

TextsRead(cmd) == ToSet(cmd.parameters) \cup {cmd.options[i].value : i \in DOMAIN cmd.options}

(* What the handlers leave out: two of the Ada catchpoints do not use all  *)
(* of their arguments, and one bound without the other is dropped.         *)
OtherBound == [low_frame |-> "high_frame", high_frame |-> "low_frame", from |-> "to", to |-> "from"]

Dropped(tool, args) ==
  (IF tool = "catch_assert" THEN {"exception_name", "unhandled"} ELSE {})
    \cup (IF tool = "catch_handlers" THEN {"unhandled"} ELSE {})
    \cup {f \in DOMAIN args \cap DOMAIN OtherBound : args[OtherBound[f]] = Absent}

(* GDB reads the command that was meant, with the client's texts in it.    *)
IsRead(read, tool, spec, args, cmd) ==
  read = cmd /\ read.operation = spec.operation /\ TextsOf(tool, spec, args) \subseteq TextsRead(read)

(* The commands that the other values of an argument make.                 *)
Others(f, spec, args) == {Command(spec, [args EXCEPT ![f] = v]) : v \in spec.args[f] \ {args[f]}}

Arrives(tool, spec, args, cmd) ==
  /\ OneLine(Sent(cmd))
  /\ IsRead(GdbReads(Sent(cmd), ValuedIn(cmd)), tool, spec, args, cmd)
  /\ \A f \in DOMAIN args \ (Dropped(tool, args) \cup Unused(tool)) : cmd \notin Others(f, spec, args)
  /\ validate_raw_mi_command(encode_mi_command(cmd), FALSE) <=> tool \notin DOMAIN FILE_TRANSFER_TOOL_SPECS

(* A call of a tool reaches GDB as the tool's operation with the options   *)
(* and parameters that its handler gives it, the client's texts among them *)
(* unchanged and none of them taken for an option; and every argument that *)
(* is neither dropped nor called unused counts: another value of it makes  *)
(* another command (the handlers of tools/*.rs over the encoder).  The     *)
(* guard on raw lines allows the line that framewalk remembers of it, but  *)
(* for the file transfers, and the interrupt that a Scheme program is      *)
(* stopped with.                                                           *)
CallsArrive ==
  item.kind = "call" =>
    /\ LET spec == ALL_TOOL_SPECS[item.tool] IN Arrives(item.tool, spec, item.args, Command(spec, item.args))
    /\ validate_raw_mi_command(INTERRUPT, FALSE)

(* An argument that the reference of its tool calls unused does not count. *)
(* It does: build_symbol_info_cmd sends every argument for every tool.     *)
UnusedIsUnsent ==
  item.kind = "call" =>
    LET spec == ALL_TOOL_SPECS[item.tool]
    IN \A f \in Unused(item.tool) : Others(f, spec, item.args) \subseteq {Command(spec, item.args)}

(* The reference of the reverse tools gives the command of each with the   *)
(* option --reverse (resources/reference-execution.md:131-178).  The       *)
(* encoder writes one dash before the name of an option.                   *)
ReverseIsAsked ==
  item.kind = "call" /\ item.tool \in DOMAIN EXECUTION_REVERSE_TOOL_SPECS /\ item.args["reverse"] =>
    LET spec == ALL_TOOL_SPECS[item.tool]
    IN Sent(Command(spec, item.args))
         = write_u64[Token] \o <<"-">> \o spec.operation \o <<"SP", "-", "-", "reverse", "NL">>
=============================================================================
