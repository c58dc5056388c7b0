------------------------- MODULE MCPipelineRuntime --------------------------
(***************************************************************************)
(* Pipelines for model-checking PipelineRuntime.                           *)
(***************************************************************************)
EXTENDS PipelineRuntime

Plain(kind, inputs, lvl) ==
    [kind |-> kind, inputs |-> inputs, level |-> lvl, schedule |-> "always",
     incremental |-> FALSE, merge |-> "replace", partitioned |-> FALSE,
     returns |-> "relation"]

\* A timed source, a step, a step that reads both, and a sink.
MCRefresh ==
    [src |-> [Plain("source", {}, 1) EXCEPT !.schedule = "interval"],
     mid |-> Plain("step", {"src"}, 2),
     top |-> Plain("step", {"src", "mid"}, 3),
     snk |-> [Plain("sink", {"mid"}, 3) EXCEPT !.returns = "none"]]

\* A history that appends, one that reads it, and an upsert.
MCIncremental ==
    [src |-> Plain("source", {}, 1),
     hist |-> [Plain("step", {"src"}, 2) EXCEPT !.incremental = TRUE,
                                                !.merge = "append"],
     copy |-> [Plain("step", {"hist"}, 3) EXCEPT !.incremental = TRUE,
                                                 !.merge = "append"],
     dim |-> [Plain("step", {"hist"}, 3) EXCEPT !.incremental = TRUE,
                                                !.merge = "upsert"]]

\* A partitioned step that replaces its table, and one that appends.
MCPartitioned ==
    [src |-> Plain("source", {}, 1),
     part |-> [Plain("step", {"src"}, 2) EXCEPT !.partitioned = TRUE]]

MCPartitionedAppend ==
    [src |-> [Plain("source", {}, 1) EXCEPT !.schedule = "interval"],
     part |-> [Plain("step", {"src"}, 2) EXCEPT !.partitioned = TRUE,
                                                !.merge = "append"]]

\* A partitioned step that reads only what is new in a history.
MCSlices ==
    [src |-> Plain("source", {}, 1),
     hist |-> [Plain("step", {"src"}, 2) EXCEPT !.incremental = TRUE,
                                                !.merge = "append"],
     part |-> [Plain("step", {"hist"}, 3) EXCEPT !.incremental = TRUE,
                                                 !.partitioned = TRUE,
                                                 !.merge = "append"]]

MCSink ==
    [src |-> Plain("source", {}, 1),
     snk |-> [Plain("sink", {"src"}, 2) EXCEPT !.returns = "none"]]

MCCron ==
    [src |-> Plain("source", {}, 1),
     daily |-> [Plain("step", {"src"}, 2) EXCEPT !.schedule = "cron"]]

CONSTANT Considered     \* the names of the pipelines of a run

MCPipelines ==
    {[refresh |-> MCRefresh, incremental |-> MCIncremental,
      partitioned |-> MCPartitioned, appended |-> MCPartitionedAppend,
      slices |-> MCSlices, sink |-> MCSink, cron |-> MCCron][name] : name \in Considered}
=============================================================================
