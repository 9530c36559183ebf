---------------------------- MODULE MCDeployment ----------------------------
(* Two scripts for two users, the name of one the beginning of the other's, *)
(* and a run; or two or three runs of two stores and a process.             *)
EXTENDS Deployment, TLC

CONSTANTS skc, skcuser, nginx, admin, other, i1, i2, i3, r1, r2, r3, s1, s2, t1, t2

MCUser == (i1 :> skc) @@ (i2 :> skcuser) @@ (i3 :> other)
MCPermission == (i1 :> nginx) @@ (i2 :> admin) @@ (i3 :> nginx)
MCBegins == (skc :> {skc, skcuser}) @@ (skcuser :> {skcuser}) @@ (other :> {other})

Arg(store, force, init) == [store |-> store, force |-> force, init |-> init]

Sound ==
  [mode |-> "SGX", ini |-> "whole", library |-> "full", agent_ini |-> TRUE,
   files |-> {"npm", "stm"}, npms |-> {"KMS"}, stms |-> {"SGX"}]

\* One thing is missing, or two.
Unsound ==
  {[Sound EXCEPT !.ini = i] : i \in {"no mode", "no module"}}
  \cup {[Sound EXCEPT !.library = l] : l \in {"missing", "bare"}}
  \cup {[Sound EXCEPT !.mode = "SW"], [Sound EXCEPT !.stms = {}],
        [Sound EXCEPT !.agent_ini = FALSE],
        [Sound EXCEPT !.npms = {}], [Sound EXCEPT !.files = {"stm"}],
        [Sound EXCEPT !.files = {"npm"}],
        [Sound EXCEPT !.mode = "SW", !.library = "missing"]}

MCArgs == (r1 :> Arg(s1, FALSE, TRUE)) @@ (r2 :> Arg(s2, TRUE, FALSE)) @@ (r3 :> Arg(s1, FALSE, FALSE))

With(scripts, runs, threads, installed) ==
  [scripts |-> scripts, runs |-> runs, threads |-> threads, args |-> MCArgs,
   user |-> skc, build |-> installed]

MCCasts ==
  {With({i1, i2}, {r1}, {}, Sound), With({i1, i3}, {}, {}, Sound),
   With({}, {r1, r2, r3}, {t1}, Sound), With({}, {r1, r2}, {t1, t2}, Sound)}
  \cup {With({}, {r1}, {t1, t2}, b) : b \in Unsound}

=============================================================================
