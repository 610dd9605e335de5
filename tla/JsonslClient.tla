---------------------------- MODULE JsonslClient ----------------------------
(***************************************************************************)
(* The lexer under a client that does whatever the API of jsonsl.h allows  *)
(* it: feed any bytes in any number of calls, answer a callback with or    *)
(* without a stop, an ignore flag and a new level limit, reset at will.    *)
(***************************************************************************)
EXTENDS Jsonsl

CONSTANTS
  Chunk,           \* the buffers a client may pass to jsonsl_feed()
  CallbackLevel,   \* what a client may set max_callback_level to
  MaxText          \* bound on what is fed between two resets

ASSUME ChunkAssumption == \A bytes \in Chunk : bytes \in Seq(STRING)
ASSUME CallbackLevelAssumption == CallbackLevel \subseteq Nat
ASSUME MaxTextAssumption == MaxText \in Nat

AnyClient ==
  \/ Reset
  \/ \E bytes \in Chunk, maxLevel \in CallbackLevel, keys \in BOOLEAN :
       Len(text) + Len(bytes) <= MaxText /\ CallFeed(bytes, maxLevel, keys)
  \/ \E stop, ignore \in BOOLEAN, maxLevel \in CallbackLevel :
       Answer(stop, ignore, maxLevel)

JsonslNext == Feed \/ AnyClient

JsonslSpec == JsonslInit /\ [][JsonslNext]_jsnVars

=============================================================================
