----------------------------- MODULE MCGdbSession -----------------------------
(* GdbSession for TLC: two threads, two places, one child object.          *)
EXTENDS GdbSession
CONSTANTS t1, t2, b1, v1, v1c, x, y

MCThreads  == {t1, t2}
MCBreaks   == {b1}
MCVarNames == {v1, v1c}

Both(names, args) == [name : names, arg : args, via : {"submit", "submit_raw"}]
Plain(names, args) == [name : names, arg : args, via : {"submit"}]

ExecScript ==
  Plain({"exec-run", "target-detach"}, {t1}) \cup Both({"exec-continue"}, {t1, t2})
DataScript ==
  Both({"break-insert"}, {b1}) \cup Both({"var-create", "var-update", "var-delete"}, {v1})
SelectScript ==
  Plain({"list-target-features", "exec-run"}, {b1}) \cup Both({"target-select"}, {b1})

MCScripts == {ExecScript, DataScript, SelectScript}

DetachScripts == {Plain({"exec-run", "target-detach"}, {t1})}
RerunScripts  == {Plain({"list-target-features", "exec-run"}, {b1})}
=============================================================================
