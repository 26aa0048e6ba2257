------------------------------- MODULE Config -------------------------------
(***************************************************************************)
(* What config.Load (config/config.go) makes of a file and an environment, *)
(* as far as the queue goes.  A variable of the environment is <<>> when   *)
(* it is unset, empty, or not a number where one is wanted: the file's     *)
(* value then stands.  So an environment may change a name the file gives  *)
(* and can never clear it; a TTL it clears with a zero.                    *)
(***************************************************************************)
EXTENDS Integers, Sequences

CONSTANT Half     \* 2^31, half the range of an int32

ASSUME ConfigAssumption == Half \in Nat \ {0}

\* config/config.yaml.  An empty string is a setting that is not made.
RepositoryFile ==
    [exchange |-> "webhook_events", queue |-> "webhook_queue",
     dlx |-> "webhook_events_dlq", dlq |-> "webhook_events_dlq",
     key |-> "", ttl |-> 0]

Override(given, default) == IF given = <<>> THEN default ELSE given[1]

Load(file, env) == [s \in DOMAIN file |-> Override(env[s], file[s])]

\* int32(v)
Int32(v) == ((v + Half) % (2 * Half)) - Half
=============================================================================
