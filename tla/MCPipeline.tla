------------------------------ MODULE MCPipeline ------------------------------
(***************************************************************************)
(* Instances of Pipeline for TLC.                                          *)
(***************************************************************************)
EXTENDS Pipeline

(* A root, a middle stage, and a stage that takes the items of both.       *)
Triangle == <<{2, 3}, {3}, {}>>

RunTriangle == {<<"run", "run", "run">>}

(* Plans the cache can lead to: everything runs; a fine stage over two     *)
(* replays, of which the second is sent items it must ignore; a fine stage *)
(* over a skipped one; nothing to do.                                      *)
TrianglePlans == {<<"run", "run", "run">>, <<"replay", "replay", "run">>,
                  <<"skip", "replay", "run">>, <<"skip", "skip", "skip">>}

TriangleEmits == <<2, 1, 0>>

Mixed == <<{"ok"}, {"ok", "failed"}, {"stored", "failed"}>>
=============================================================================
