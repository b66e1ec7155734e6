------------------------- MODULE MCServiceProcess -------------------------
(***************************************************************************)
(* The instances of ServiceProcess that TLC checks.                        *)
(***************************************************************************)
EXTENDS ServiceProcess, TLC

CONSTANTS h1, h2

MCHandlers == {h1, h2}

Required(svc) == Config[svc].required
Good(svc) == [f \in Required(svc) |-> "given"]

(* What the file and the environment may say of one field. *)
FileValues(f) == IF f \in Numbers THEN {0, 7} ELSE {" ", "file"}
EnvValues(f) == IF f \in Numbers THEN {-1, 9, Junk} ELSE {"", " ", "env"}

Set(f, values) == {f :> v : v \in values} \cup {<<>>}

(* Every service with what it requires, under three faults; every service with
   one field that file and environment set in all ways, under none; and a
   file that cannot be read. *)
MCDeployments ==
    LET Sets(s, f) ==
          {[svc |-> s, file |-> x, faults |-> 0,
            env |-> y @@ [g \in Required(s) \ {f} |-> "given"]] :
             x \in Set(f, FileValues(f)), y \in Set(f, EnvValues(f))}
    IN  {[svc |-> s, file |-> <<>>, faults |-> 3, env |-> Good(s)] :
           s \in Services}
        \cup UNION {UNION {Sets(s, f) : f \in DOMAIN Config[s].default} :
                      s \in Services}
        \cup {[svc |-> "auth", file |-> Unreadable, faults |-> 0,
               env |-> Good("auth")]}

=============================================================================
