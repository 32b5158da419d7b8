-------------------------------- MODULE Tools --------------------------------
(***************************************************************************)
(* The semantic tools: the MI command that each makes of its arguments     *)
(* (tools/*.rs).  A tool is the type of its arguments, its operation, its  *)
(* options and its parameters, in the order in which the handler appends   *)
(* them.  An item of a tool says what the handler makes of a field:        *)
(*   flag    an option without a value, when the field is TRUE             *)
(*   set     an option with a value that is given, when the field is TRUE  *)
(*   named   an option whose name is the field's value, unless Absent      *)
(*   with    an option whose value is the field's, unless Absent           *)
(*   param   a parameter, unless Absent                                    *)
(*   each    one parameter for each text of the field                      *)
(*   quoted  the same, of each text between quotes                         *)
(*   both    two fields, as two parameters, unless one of them is Absent   *)
(*   frames  0 and the number of the last frame, for the field's limit     *)
(*   either  one parameter when the field is TRUE, another when it is not  *)
(*   option, text  an option or a parameter that depends on no field       *)
(***************************************************************************)
EXTENDS RawGuard, ToolArgs

Item(how, name, arg) == [how |-> how, name |-> name, arg |-> arg]

Flag(name, arg)          == Item("flag", <<name>>, arg)
Set(name, value, arg)    == Item("set", <<<<name>>, <<value>>>>, arg)
With(name, arg)          == Item("with", <<name>>, arg)
ByName(arg)              == Item("named", <<>>, arg)
Param(arg)               == Item("param", <<>>, arg)
Each(arg)                == Item("each", <<>>, arg)
Quoted(arg)              == Item("quoted", <<>>, arg)
Both(arg, other)         == Item("both", other, arg)
Frames(arg)              == Item("frames", <<>>, arg)
Either(yes, no, arg)     == Item("either", <<<<yes>>, <<no>>>>, arg)
Opt(name)                == Item("option", <<name>>, "")
Always(text)             == Item("text", <<text>>, "")

Cmd(args, operation, options, parameters) ==
  [args |-> args, operation |-> <<operation>>, options |-> options, parameters |-> parameters]

Plain(operation)                   == Cmd(NoArgs, operation, <<>>, <<>>)
Takes(args, operation, parameters) == Cmd(args, operation, <<>>, parameters)

(* The arguments of a tool: one value of its domain for every field.       *)
ArgsOf(tool) ==
  LET Extended(field, calls) == {args @@ (field :> v) : args \in calls, v \in tool.args[field]}
  IN FoldSet(Extended, {<<>>}, DOMAIN tool.args)

(* backtrace: the last frame of limit.max(1).                              *)
high(limit) == <<Nibble((IF limit = <<"0">> THEN 1 ELSE Digit[limit[1]]) - 1)>>

(* What a handler does with one item.                                      *)
Appended(cmd, item, args) ==
  LET v == args[item.arg]
  IN CASE item.how = "flag"   -> IF v THEN option(cmd, item.name) ELSE cmd
       [] item.how = "set"    -> IF v THEN option_with(cmd, item.name[1], item.name[2]) ELSE cmd
       [] item.how = "named"  -> IF v = Absent THEN cmd ELSE option(cmd, v)
       [] item.how = "with"   -> IF v = Absent THEN cmd ELSE option_with(cmd, item.name, v)
       [] item.how = "param"  -> IF v = Absent THEN cmd ELSE parameter(cmd, v)
       [] item.how = "each"   -> FoldLeft(parameter, cmd, v)
       [] item.how = "quoted" -> FoldLeft(LAMBDA c, text : parameter(c, InQuotes(text)), cmd, v)
       [] item.how = "both"   -> IF v = Absent \/ args[item.name] = Absent THEN cmd
                                 ELSE parameter(parameter(cmd, v), args[item.name])
       [] item.how = "frames" -> IF v = Absent THEN cmd ELSE parameter(parameter(cmd, <<"0">>), high(v))
       [] item.how = "either" -> parameter(cmd, IF v THEN item.name[1] ELSE item.name[2])
       [] item.how = "option" -> option(cmd, item.name)
       [] item.how = "text"   -> parameter(cmd, item.name)

Items(tool) == tool.options \o tool.parameters

(* A handler, from MiCommand::new on.                                      *)
Command(tool, args) ==
  FoldLeft(LAMBDA cmd, item : Appended(cmd, item, args), new(tool.operation), Items(tool))

-----------------------------------------------------------------------------
(* tools/session.rs, tools/execution.rs                                    *)

SESSION_TOOL_SPECS == [
  gdb_version |-> Plain("gdb-version"),
  load_file   |-> Takes(FilePathArgs, "file-exec-and-symbols", <<Param("path")>>),
  attach      |-> Takes(AttachArgs, "target-attach", <<Param("pid")>>),
  detach      |-> Plain("target-detach")]

EXECUTION_CORE_TOOL_SPECS == [
  run    |-> Plain("exec-run"),
  cont   |-> Plain("exec-continue"),
  step   |-> Plain("exec-step"),
  next   |-> Plain("exec-next"),
  finish |-> Plain("exec-finish"),
  until  |-> Takes(UntilArgs, "exec-until", <<Param("location")>>)]

EXECUTION_EXTENDED_TOOL_SPECS == [
  step_instruction     |-> Plain("exec-step-instruction"),
  next_instruction     |-> Plain("exec-next-instruction"),
  return_from_function |-> Takes(ReturnArgs, "exec-return", <<Param("expression")>>),
  jump                 |-> Takes(JumpArgs, "exec-jump", <<Param("location")>>)]

Reversed(operation) == Cmd(ReverseStepArgs, operation, <<Flag("reverse", "reverse")>>, <<>>)

EXECUTION_REVERSE_TOOL_SPECS == [
  reverse_step     |-> Reversed("exec-step"),
  reverse_next     |-> Reversed("exec-next"),
  reverse_continue |-> Reversed("exec-continue"),
  reverse_finish   |-> Reversed("exec-finish")]

(* interrupt and interrupt_target send a line of their own, and            *)
(* mi_raw_command its client's, through the guard.                         *)
INTERRUPT == <<"-", "exec-interrupt", "SP", "-", "-", "all">>

(* tools/operator.rs: target_select.                                       *)
OPERATOR_TOOL_SPECS == [
  target_select |-> Takes(TargetSelectArgs, "target-select", <<Param("transport"), Param("parameters")>>)]

(* tools/breakpoints.rs                                                    *)

BREAKPOINTS_CORE_TOOL_SPECS == [
  set_breakpoint     |-> Cmd(SetBreakpointArgs, "break-insert",
                             <<Flag("t", "temporary"), With("c", "condition")>>, <<Param("location")>>),
  list_breakpoints   |-> Plain("break-list"),
  delete_breakpoint  |-> Takes(BreakpointIdArgs, "break-delete", <<Param("id")>>),
  enable_breakpoint  |-> Takes(BreakpointIdArgs, "break-enable", <<Param("id")>>),
  disable_breakpoint |-> Takes(BreakpointIdArgs, "break-disable", <<Param("id")>>),
  break_condition    |-> Takes(BreakConditionArgs, "break-condition", <<Param("id"), Param("condition")>>),
  break_after        |-> Takes(BreakAfterArgs, "break-after", <<Param("id"), Param("count")>>),
  break_info         |-> Takes(BreakpointIdArgs, "break-info", <<Param("id")>>),
  set_watchpoint     |-> Cmd(SetWatchpointArgs, "break-watch", <<ByName("watch_type")>>, <<Param("expression")>>)]

BREAKPOINTS_EXTENDED_TOOL_SPECS == [
  break_commands  |-> Takes(BreakCommandsArgs, "break-commands", <<Param("id"), Quoted("commands")>>),
  break_passcount |-> Takes(BreakPasscountArgs, "break-passcount", <<Param("id"), Param("passcount")>>),
  dprintf_insert  |-> Cmd(DprintfInsertArgs, "dprintf-insert",
                          <<Flag("t", "temporary"), With("c", "condition"), With("i", "ignore_count"),
                            With("p", "thread_id")>>,
                          <<Param("location"), Param("format"), Each("args")>>)]

(* tools/inspection.rs                                                     *)

INSPECTION_TOOL_SPECS == [
  backtrace     |-> Takes(BacktraceArgs, "stack-list-frames", <<Frames("limit")>>),
  list_threads  |-> Takes(ThreadInfoArgs, "thread-info", <<Param("thread_id")>>),
  select_frame  |-> Takes(SelectFrameArgs, "stack-select-frame", <<Param("level")>>),
  select_thread |-> Takes(ThreadSelectArgs, "thread-select", <<Param("thread_id")>>)]

StackList(args, operation, range) ==
  Cmd(args, operation, <<Flag("skip-unavailable", "skip_unavailable")>>, <<Param("print_values")>> \o range)

STACK_CORE_TOOL_SPECS == [
  frame_info     |-> Plain("stack-info-frame"),
  stack_depth    |-> Takes(StackDepthArgs, "stack-info-depth", <<Param("max_depth")>>),
  list_locals    |-> StackList(StackListArgs, "stack-list-locals", <<>>),
  list_arguments |-> StackList(StackListArgumentsArgs, "stack-list-arguments",
                               <<Both("low_frame", "high_frame")>>),
  list_variables |-> StackList(StackListArgs, "stack-list-variables", <<>>)]

STACK_EXTENDED_TOOL_SPECS == [
  enable_frame_filters |-> Plain("enable-frame-filters")]

(* tools/variables.rs                                                      *)

OnVar(operation) == Takes(VarNameArgs, operation, <<Param("name")>>)

VARIABLES_CORE_TOOL_SPECS == [
  inspect                 |-> Takes(InspectArgs, "data-evaluate-expression", <<Param("expression")>>),
  watch_create            |-> Takes(WatchCreateArgs, "var-create", <<Always("-"), Always("*"), Param("expression")>>),
  watch_list              |-> Takes(NoArgs, "var-update", <<Always("*")>>),
  watch_delete            |-> Takes(WatchDeleteArgs, "var-delete", <<Param("name")>>),
  var_list_children       |-> Takes(VarListChildrenArgs, "var-list-children",
                                    <<Param("print_values"), Param("name"), Both("from", "to")>>),
  var_evaluate_expression |-> OnVar("var-evaluate-expression")]

VARIABLES_EXTENDED_TOOL_SPECS == [
  var_assign               |-> Takes(VarAssignArgs, "var-assign", <<Param("name"), Param("expression")>>),
  var_set_format           |-> Takes(VarSetFormatArgs, "var-set-format", <<Param("name"), Param("format")>>),
  var_show_format          |-> OnVar("var-show-format"),
  var_info_num_children    |-> OnVar("var-info-num-children"),
  var_info_type            |-> OnVar("var-info-type"),
  var_info_expression      |-> OnVar("var-info-expression"),
  var_info_path_expression |-> OnVar("var-info-path-expression"),
  var_show_attributes      |-> OnVar("var-show-attributes"),
  var_set_frozen           |-> Takes(VarSetFrozenArgs, "var-set-frozen",
                                     <<Param("name"), Either("1", "0", "frozen")>>),
  var_set_update_range     |-> Takes(VarSetUpdateRangeArgs, "var-set-update-range",
                                     <<Param("name"), Param("from"), Param("to")>>),
  var_set_visualizer       |-> Takes(VarSetVisualizerArgs, "var-set-visualizer",
                                     <<Param("name"), Param("visualizer")>>),
  enable_pretty_printing   |-> Plain("enable-pretty-printing")]

DATA_CORE_TOOL_SPECS == [
  read_memory            |-> Cmd(ReadMemoryArgs, "data-read-memory-bytes", <<With("o", "offset")>>,
                                 <<Param("address"), Param("count")>>),
  disassemble            |-> Cmd(DisassembleArgs, "data-disassemble",
                                 <<With("s", "start_addr"), With("e", "end_addr"), With("opcodes", "opcodes"),
                                   Flag("source", "source")>>,
                                 <<Item("text", <<"-", "-">>, ""), Always("0")>>),
  list_register_names    |-> Takes(RegisterNamesArgs, "data-list-register-names", <<Each("registers")>>),
  read_registers         |-> Takes(RegisterValuesArgs, "data-list-register-values",
                                   <<Param("format"), Each("registers")>>),
  list_changed_registers |-> Plain("data-list-changed-registers")]

DATA_EXTENDED_TOOL_SPECS == [
  write_memory           |-> Takes(WriteMemoryArgs, "data-write-memory-bytes",
                                   <<Param("address"), Param("contents"), Param("count")>>),
  read_memory_deprecated |-> Cmd(ReadMemoryDeprecatedArgs, "data-read-memory", <<With("o", "column_offset")>>,
                                 <<Param("address"), Param("word_format"), Param("word_size"), Param("nr_rows"),
                                   Param("nr_cols"), Param("aschar")>>)]

(* tools/environment.rs                                                    *)

CONTEXT_CORE_TOOL_SPECS == [
  set_args |-> Takes(SetArgsArgs, "exec-arguments", <<Param("args")>>),
  set_cwd  |-> Takes(SetCwdArgs, "environment-cd", <<Param("directory")>>),
  show_cwd |-> Plain("environment-pwd")]

CONTEXT_EXTENDED_TOOL_SPECS == [
  set_inferior_tty      |-> Takes(SetInferiorTtyArgs, "inferior-tty-set", <<Param("tty")>>),
  show_inferior_tty     |-> Plain("inferior-tty-show"),
  environment_directory |-> Cmd(EnvironmentDirectoryArgs, "environment-directory", <<Flag("r", "reset")>>,
                                <<Each("directories")>>),
  environment_path      |-> Cmd(EnvironmentPathArgs, "environment-path", <<Flag("r", "reset")>>,
                                <<Each("directories")>>)]

FILE_TOOL_SPECS == [
  exec_file             |-> Takes(FilePathArgs, "file-exec-file", <<Param("path")>>),
  symbol_file           |-> Takes(FilePathArgs, "file-symbol-file", <<Param("path")>>),
  list_source_files     |-> Cmd(ListSourceFilesArgs, "file-list-exec-source-files",
                                <<Flag("group-by-objfile", "group_by_objfile")>>, <<Param("regexp")>>),
  list_shared_libraries |-> Takes(ListSharedLibrariesArgs, "file-list-shared-libraries", <<Param("regexp")>>),
  list_exec_source_file |-> Plain("file-list-exec-source-file")]

TARGET_TOOL_SPECS == [
  target_download    |-> Plain("target-download"),
  target_disconnect  |-> Plain("target-disconnect"),
  target_flash_erase |-> Plain("target-flash-erase")]

FILE_TRANSFER_TOOL_SPECS == [
  target_file_put    |-> Takes(FilePutArgs, "target-file-put", <<Param("host_file"), Param("target_file")>>),
  target_file_get    |-> Takes(FileGetArgs, "target-file-get", <<Param("target_file"), Param("host_file")>>),
  target_file_delete |-> Takes(FileDeleteArgs, "target-file-delete", <<Param("target_file")>>)]

SUPPORT_CORE_TOOL_SPECS == [
  list_features        |-> Plain("list-features"),
  list_target_features |-> Plain("list-target-features")]

SUPPORT_EXTENDED_TOOL_SPECS == [
  info_mi_command |-> Takes(InfoMiCommandArgs, "info-gdb-mi-command", <<Param("command")>>),
  gdb_set         |-> Takes(GdbSetArgs, "gdb-set", <<Param("variable")>>),
  gdb_show        |-> Takes(GdbShowArgs, "gdb-show", <<Param("variable")>>)]

MISC_TOOL_SPECS == [
  list_thread_groups  |-> Cmd(ListThreadGroupsArgs, "list-thread-groups",
                              <<Flag("available", "available"), Set("recurse", "1", "recurse")>>, <<Each("groups")>>),
  info_os             |-> Takes(InfoOsArgs, "info-os", <<Param("info_type")>>),
  add_inferior        |-> Plain("add-inferior"),
  remove_inferior     |-> Takes(RemoveInferiorArgs, "remove-inferior", <<Param("inferior_id")>>),
  thread_list_ids     |-> Plain("thread-list-ids"),
  ada_task_info       |-> Plain("ada-task-info"),
  info_ada_exceptions |-> Takes(InfoAdaExceptionsArgs, "info-ada-exceptions", <<Param("regexp")>>),
  enable_timings      |-> Takes(EnableTimingsArgs, "enable-timings", <<Either("yes", "no", "enable")>>),
  complete            |-> Takes(CompleteArgs, "complete", <<Param("command")>>)]

(* tools/symbols.rs                                                        *)

build_symbol_info_cmd(operation) ==
  Cmd(SymbolInfoArgs, operation,
      <<Flag("include-nondebug", "include_nondebug"), With("name", "name"), With("type", "type_regexp"),
        With("max-results", "max_results")>>, <<>>)

build_symbol_module_cmd(operation) ==
  Cmd(SymbolModuleArgs, operation, <<With("module", "module"), With("name", "name"), With("type", "type_regexp")>>,
      <<>>)

SYMBOL_CORE_TOOL_SPECS == [
  symbol_info_functions |-> build_symbol_info_cmd("symbol-info-functions"),
  symbol_info_types     |-> build_symbol_info_cmd("symbol-info-types"),
  symbol_info_variables |-> build_symbol_info_cmd("symbol-info-variables")]

SYMBOL_EXTENDED_TOOL_SPECS == [
  symbol_info_modules          |-> build_symbol_info_cmd("symbol-info-modules"),
  symbol_info_module_functions |-> build_symbol_module_cmd("symbol-info-module-functions"),
  symbol_info_module_variables |-> build_symbol_module_cmd("symbol-info-module-variables"),
  symbol_list_lines            |-> Takes(SymbolListLinesArgs, "symbol-list-lines", <<Param("filename")>>)]

(* tools/trace.rs                                                          *)

CatchLibrary(operation) ==
  Cmd(CatchLoadUnloadArgs, operation, <<Flag("t", "temporary"), Flag("d", "disabled")>>, <<Param("regexp")>>)

(* The three Ada catchpoints take the same arguments, and two of them use  *)
(* some of these only.                                                     *)
CatchAda(operation, more) ==
  Cmd(CatchAdaExceptionArgs, operation,
      <<With("c", "condition"), Flag("d", "disabled"), Flag("t", "temporary")>> \o more, <<>>)

CatchCpp(operation) == Cmd(CatchCppExceptionArgs, operation, <<Flag("t", "temporary"), With("r", "regexp")>>, <<>>)

CATCHPOINT_TOOL_SPECS == [
  catch_load      |-> CatchLibrary("catch-load"),
  catch_unload    |-> CatchLibrary("catch-unload"),
  catch_assert    |-> CatchAda("catch-assert", <<>>),
  catch_exception |-> CatchAda("catch-exception", <<With("e", "exception_name"), Flag("u", "unhandled")>>),
  catch_handlers  |-> CatchAda("catch-handlers", <<With("e", "exception_name")>>),
  catch_throw     |-> CatchCpp("catch-throw"),
  catch_rethrow   |-> CatchCpp("catch-rethrow"),
  catch_catch     |-> CatchCpp("catch-catch")]

TRACEPOINT_TOOL_SPECS == [
  trace_insert          |-> Cmd(TraceInsertArgs, "break-insert", <<Opt("a")>>, <<Param("location")>>),
  trace_start           |-> Plain("trace-start"),
  trace_stop            |-> Plain("trace-stop"),
  trace_status          |-> Plain("trace-status"),
  trace_save            |-> Cmd(TraceSaveArgs, "trace-save", <<Flag("r", "remote"), Flag("ctf", "ctf")>>,
                                <<Param("filename")>>),
  trace_list_variables  |-> Plain("trace-list-variables"),
  trace_define_variable |-> Takes(TraceDefineVariableArgs, "trace-define-variable",
                                  <<Param("name"), Param("value")>>),
  trace_find            |-> Takes(TraceFindArgs, "trace-find", <<Each("mode")>>),
  trace_frame_collected |-> Cmd(TraceFrameCollectedArgs, "trace-frame-collected",
                                <<With("var-print-values", "var_print_values"),
                                  With("comp-print-values", "comp_print_values"),
                                  With("registers-format", "registers_format"),
                                  Flag("memory-contents", "memory_contents")>>, <<>>)]

-----------------------------------------------------------------------------
(* ALL_TOOL_SPEC_GROUPS: the tools that send an MI command of their own.   *)
ALL_TOOL_SPECS ==
  SESSION_TOOL_SPECS @@ OPERATOR_TOOL_SPECS @@ EXECUTION_CORE_TOOL_SPECS @@ EXECUTION_EXTENDED_TOOL_SPECS
    @@ EXECUTION_REVERSE_TOOL_SPECS @@ BREAKPOINTS_CORE_TOOL_SPECS @@ BREAKPOINTS_EXTENDED_TOOL_SPECS
    @@ INSPECTION_TOOL_SPECS @@ STACK_CORE_TOOL_SPECS @@ STACK_EXTENDED_TOOL_SPECS
    @@ VARIABLES_CORE_TOOL_SPECS @@ VARIABLES_EXTENDED_TOOL_SPECS @@ DATA_CORE_TOOL_SPECS
    @@ DATA_EXTENDED_TOOL_SPECS @@ CONTEXT_CORE_TOOL_SPECS @@ CONTEXT_EXTENDED_TOOL_SPECS @@ FILE_TOOL_SPECS
    @@ TARGET_TOOL_SPECS @@ FILE_TRANSFER_TOOL_SPECS @@ SUPPORT_CORE_TOOL_SPECS @@ SUPPORT_EXTENDED_TOOL_SPECS
    @@ MISC_TOOL_SPECS @@ SYMBOL_CORE_TOOL_SPECS @@ SYMBOL_EXTENDED_TOOL_SPECS @@ CATCHPOINT_TOOL_SPECS
    @@ TRACEPOINT_TOOL_SPECS
=============================================================================
