-------------------------- MODULE MCGwpSession --------------------------
(* Instances of GwpSession.                                                *)
EXTENDS GwpSession

CONSTANTS o1, o2, p1, p2, p3, n1, n2

(* The f32 CUDA profile: prefix cache, one graph replayed for every step.  *)
Replay == [language |-> "tokens", prompt_cache_limit |-> 2,
           prefix_cache |-> TRUE, action_prompt_cache |-> TRUE,
           prompt_kv_cache |-> TRUE, graph_cache |-> TRUE,
           force_cpu_scheduler |-> FALSE, debug_dump |-> FALSE,
           cuda |-> TRUE, unrolled_denoise |-> FALSE]

(* The bf16 latency profile. *)
Latency == [Replay EXCEPT !.unrolled_denoise = TRUE]

(* Every way the code takes, at least once. *)
AllConfigs ==
  { Replay, Latency,
    [Replay EXCEPT !.prompt_cache_limit = 1],
    [Replay EXCEPT !.prompt_cache_limit = 0],
    [Replay EXCEPT !.prompt_kv_cache = FALSE],
    [Replay EXCEPT !.action_prompt_cache = FALSE],
    [Replay EXCEPT !.force_cpu_scheduler = TRUE],
    [Replay EXCEPT !.graph_cache = FALSE],
    [Replay EXCEPT !.debug_dump = TRUE],
    [Replay EXCEPT !.prefix_cache = FALSE],
    [Replay EXCEPT !.prefix_cache = FALSE, !.graph_cache = FALSE],
    [Replay EXCEPT !.cuda = FALSE],
    [Replay EXCEPT !.language = "embedding", !.prompt_cache_limit = 0],
    [Replay EXCEPT !.language = "fixed"],
    [Latency EXCEPT !.prompt_kv_cache = FALSE],
    [Latency EXCEPT !.prompt_cache_limit = 0] }

(* Every allocation the code survives may be refused. *)
Everything == Graphs \cup {"storage"}
=============================================================================
