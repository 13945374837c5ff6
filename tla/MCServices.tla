------------------------------ MODULE MCServices ------------------------------
(***************************************************************************)
(* Small instances of two components that share no state, and one run for  *)
(* both: the caches (CacheFill) and the Android service with the server it *)
(* starts and stops (NasLifecycle).  A behaviour moves one of them; the    *)
(* other stays as it begins, with none of its fair steps enabled.          *)
(***************************************************************************)
EXTENDS CacheFill, NasLifecycle

VARIABLE moving  \* the component that this behaviour moves

\* The two versions of a live photo have videos of different lengths.
Lengths == <<1, 2>>

servicesVars == <<cacheVars, nasVars, moving>>

ServicesInit ==
  /\ CacheInit /\ NasInit
  /\ moving \in {"caches", "service"}
  /\ moving = "caches" => foreign = {}
  /\ moving = "service" => cache = "thumb"
  /\ moving = "service" \/ cache # "thumb" => workers = 2

ServicesNext ==
  \/ moving = "caches" /\ CacheNext /\ UNCHANGED <<nasVars, moving>>
  \/ moving = "service" /\ NasNext /\ UNCHANGED <<cacheVars, moving>>

ServicesSpec ==
  ServicesInit /\ [][ServicesNext]_servicesVars /\ CacheFairness /\ NasFairness

\* Every variable of the two components keeps its type; in particular the semaphore of the
\* thumbnailer holds one token for each goroutine that generates, and never more than its
\* capacity.
ServicesTypeOK == CacheTypeOK /\ NasTypeOK
=============================================================================
