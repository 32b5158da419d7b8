------------------------------ MODULE ToolArgs ------------------------------
(***************************************************************************)
(* The arguments of the semantic tools: for each struct of types/*.rs the  *)
(* domain of every field, and the enums of mi_types.rs as as_mi_arg writes *)
(* them.  A text is what a client passes, a number is printed already, an  *)
(* Option that is None is Absent, a Vec is a sequence.                     *)
(***************************************************************************)
EXTENDS MiCodec

CONSTANTS
  String,       \* the texts that clients pass
  U32,          \* the unsigned numbers that they pass, printed
  I64           \* the signed numbers that they pass, printed

Absent == NoValue

Option(S) == S \cup {Absent}

Vec(S) == {<<>>} \cup {<<a>> : a \in S} \cup {<<a, b>> : a \in S, b \in S}

-----------------------------------------------------------------------------
(* mi_types.rs                                                             *)
PrintValues      == {<<"-", "-", "no-values">>, <<"-", "-", "all-values">>, <<"-", "-", "simple-values">>}
RegisterFormat   == {<<"x">>, <<"o">>, <<"t">>, <<"d">>, <<"r">>, <<"N">>}
OpcodeMode       == {<<"none">>, <<"bytes">>, <<"display">>}

(* Read and Access by their option; Write has none.                        *)
WatchType        == {Absent, <<"r">>, <<"a">>}
VarFormat        == {<<"binary">>, <<"decimal">>, <<"hexadecimal">>, <<"octal">>, <<"natural">>,
                     <<"zero-hexadecimal">>}
MemoryWordFormat == {<<"x">>, <<"d">>, <<"o">>, <<"t">>, <<"f">>, <<"c">>, <<"s">>, <<"a">>}

(* A mode with the parameters that it carries, as trace_find writes them.  *)
TraceFindMode ==
  {<<<<"none">>>>}
    \cup {<<<<mode>>, n>> : mode \in {"frame-number", "tracepoint-number"}, n \in U32}
    \cup {<<<<mode>>, text>> : mode \in {"pc", "line"}, text \in String}
    \cup {<<<<mode>>, start, end>> :
            mode \in {"pc-inside-range", "pc-outside-range"}, start \in String, end \in String}

-----------------------------------------------------------------------------
(* types/*.rs                                                              *)
NoArgs == <<>>

SetBreakpointArgs  == [location |-> String, condition |-> Option(String), temporary |-> BOOLEAN]
BreakpointIdArgs   == [id |-> String]
SetWatchpointArgs  == [expression |-> String, watch_type |-> WatchType]
BreakConditionArgs == [id |-> String, condition |-> String]
BreakAfterArgs     == [id |-> String, count |-> U32]
BreakCommandsArgs  == [id |-> String, commands |-> Vec(String)]
BreakPasscountArgs == [id |-> String, passcount |-> U32]
DprintfInsertArgs  == [location |-> String, format |-> String, args |-> Vec(String), temporary |-> BOOLEAN,
                       condition |-> Option(String), ignore_count |-> Option(U32), thread_id |-> Option(String)]

CatchLoadUnloadArgs   == [regexp |-> String, temporary |-> BOOLEAN, disabled |-> BOOLEAN]
CatchAdaExceptionArgs == [condition |-> Option(String), disabled |-> BOOLEAN, temporary |-> BOOLEAN,
                          exception_name |-> Option(String), unhandled |-> BOOLEAN]
CatchCppExceptionArgs == [temporary |-> BOOLEAN, regexp |-> Option(String)]

SetArgsArgs              == [args |-> String]
SetCwdArgs               == [directory |-> String]
SetInferiorTtyArgs       == [tty |-> String]
EnvironmentPathArgs      == [directories |-> Vec(String), reset |-> BOOLEAN]
EnvironmentDirectoryArgs == [directories |-> Vec(String), reset |-> BOOLEAN]

ReadMemoryArgs           == [address |-> String, count |-> U32, offset |-> Option(I64)]
WriteMemoryArgs          == [address |-> String, contents |-> String, count |-> Option(U32)]
DisassembleArgs          == [start_addr |-> String, end_addr |-> String, opcodes |-> Option(OpcodeMode),
                             source |-> BOOLEAN]
RegisterValuesArgs       == [format |-> RegisterFormat, registers |-> Vec(U32)]
RegisterNamesArgs        == [registers |-> Vec(U32)]
ReadMemoryDeprecatedArgs == [address |-> String, word_format |-> MemoryWordFormat, word_size |-> U32,
                             nr_rows |-> U32, nr_cols |-> U32, column_offset |-> Option(I64),
                             aschar |-> Option(String)]

UntilArgs       == [location |-> Option(String)]
JumpArgs        == [location |-> String]
ReturnArgs      == [expression |-> Option(String)]
ReverseStepArgs == [reverse |-> BOOLEAN]

FilePathArgs            == [path |-> String]
ListSourceFilesArgs     == [group_by_objfile |-> BOOLEAN, regexp |-> Option(String)]
ListSharedLibrariesArgs == [regexp |-> Option(String)]

FilePutArgs    == [host_file |-> String, target_file |-> String]
FileGetArgs    == [target_file |-> String, host_file |-> String]
FileDeleteArgs == [target_file |-> String]

ListThreadGroupsArgs  == [available |-> BOOLEAN, recurse |-> BOOLEAN, groups |-> Vec(String)]
InfoOsArgs            == [info_type |-> Option(String)]
RemoveInferiorArgs    == [inferior_id |-> String]
CompleteArgs          == [command |-> String]
EnableTimingsArgs     == [enable |-> BOOLEAN]
InfoAdaExceptionsArgs == [regexp |-> Option(String)]

SelectFrameArgs        == [level |-> U32]
BacktraceArgs          == [limit |-> Option({<<"0">>, <<"2">>})]
StackListArgs          == [print_values |-> PrintValues, skip_unavailable |-> BOOLEAN]
StackListArgumentsArgs == [print_values |-> PrintValues, skip_unavailable |-> BOOLEAN,
                           low_frame |-> Option(U32), high_frame |-> Option(U32)]
StackDepthArgs         == [max_depth |-> Option(U32)]

GdbSetArgs        == [variable |-> String]
GdbShowArgs       == [variable |-> String]
InfoMiCommandArgs == [command |-> String]

SymbolInfoArgs      == [name |-> Option(String), type_regexp |-> Option(String), include_nondebug |-> BOOLEAN,
                        max_results |-> Option(U32)]
SymbolModuleArgs    == [module |-> Option(String), name |-> Option(String), type_regexp |-> Option(String)]
SymbolListLinesArgs == [filename |-> String]

AttachArgs       == [pid |-> String]
TargetSelectArgs == [transport |-> String, parameters |-> String]

ThreadSelectArgs == [thread_id |-> String]
ThreadInfoArgs   == [thread_id |-> Option(String)]

TraceInsertArgs         == [location |-> String]
TraceFindArgs           == [mode |-> TraceFindMode]
TraceDefineVariableArgs == [name |-> String, value |-> Option(String)]
TraceSaveArgs           == [filename |-> String, ctf |-> BOOLEAN, remote |-> BOOLEAN]
TraceFrameCollectedArgs == [var_print_values |-> Option(PrintValues), comp_print_values |-> Option(PrintValues),
                            registers_format |-> Option(RegisterFormat), memory_contents |-> BOOLEAN]

InspectArgs           == [expression |-> String]
WatchCreateArgs       == [expression |-> String]
WatchDeleteArgs       == [name |-> String]
VarNameArgs           == [name |-> String]
VarListChildrenArgs   == [name |-> String, print_values |-> Option(PrintValues), from |-> Option(U32),
                          to |-> Option(U32)]
VarAssignArgs         == [name |-> String, expression |-> String]
VarSetFormatArgs      == [name |-> String, format |-> VarFormat]
VarSetFrozenArgs      == [name |-> String, frozen |-> BOOLEAN]
VarSetUpdateRangeArgs == [name |-> String, from |-> U32, to |-> U32]
VarSetVisualizerArgs  == [name |-> String, visualizer |-> String]
=============================================================================
