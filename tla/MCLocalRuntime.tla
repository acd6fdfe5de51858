--------------------------- MODULE MCLocalRuntime ---------------------------
(* Instances of LocalRuntime: an artifact with one or two tensors in each  *)
(* component and one that belongs to none.  The encoder is the largest, so *)
(* the device (10) has room for one model with it, for two without it, and *)
(* for two that take turns with it.                                        *)
EXTENDS LocalRuntime, TLC

MCTensors == {"gwp.a", "gwp.b", "t5.a", "t5.b", "vae.a", "meta"}

MCPrefixOf ==
  [t \in MCTensors |->
     CASE t \in {"gwp.a", "gwp.b"} -> "mot" [] t \in {"t5.a", "t5.b"} -> "umt5"
       [] t = "vae.a" -> "vae" [] t = "meta" -> "other"]

MCBytesOf == [c \in Components |-> CASE c = "mot" -> 3 [] c = "umt5" -> 5 [] c = "vae" -> 1]

(* Every language mode on a device, a backend that is none, no backend. *)
MCConfigs ==
  [backend : {"device"}, mode : {"tokens", "fixed", "external"}]
    \cup {[backend |-> "null", mode |-> "tokens"],
          [backend |-> "metadata", mode |-> "tokens"]}

Interchangeable == Permutations(Models) \cup Permutations(Sessions)
=============================================================================
