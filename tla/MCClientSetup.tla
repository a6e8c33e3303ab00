---------------------------- MODULE MCClientSetup ----------------------------
(* ClientSetup for TLC: a platform whose usize is a u32, widths scaled down *)
(* to what TLC can count, and for each option the values on either side of *)
(* every decision about it; options nothing is decided about keep one.     *)
EXTENDS ClientSetup

MCValues == [o \in Options |->
    CASE o = "events_batch_size"     -> {0, 1}
      [] o = "events_queue_size"     -> {0, 2}
      [] o = "events_flush_interval" -> {0, 1}
      [] o = "events_max_retries"    -> {0, U32Max}
      [] o = "events_sample_rate"    -> {0, U8Max}
      [] o = "enabled"               -> BOOLEAN
      [] o = "env"                   -> {"test", "production"}
      [] o = "exclude_envs"          -> {{}, {"production"}}
      [] o = "endpoint"              -> {[web |-> w, slashes |-> 1] : w \in BOOLEAN}
      [] o = "connect_timeout"       -> {2, 9}
      [] o = "request_timeout"       -> {1, 9}
      [] o = "api_key"               -> {"key"}
      [] OTHER                       -> {}]

MCRaws == [o \in Variables |->
    CASE o \in {"events_batch_size", "events_max_retries", "events_sample_rate"}
                       -> {Junk, 0, U32Max + 1}
      [] o \in Numbers -> {Junk, 1, U64Max + 1}
      [] o = "enabled" -> {"yes", "on"}
      [] o = "env"     -> {"test"}
      [] o = "api_key" -> {"key"}
      [] OTHER         -> {}]

MCHeaders == {Unset, Junk, 0, MaxRetryAfter + 1, U64Max + 1}
=============================================================================
