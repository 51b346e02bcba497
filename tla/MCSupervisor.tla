--------------------------- MODULE MCSupervisor ----------------------------
(* Small instances of Supervisor for TLC.                                  *)
EXTENDS Supervisor, TLC

(* Two children: under ONE_FOR_ONE a permanent child beside one of each    *)
(* type, under the other strategies children that are not permanent.       *)
TameSettings ==
    ({"one_for_one"} \X {<<"permanent", t>> : t \in {"permanent", "transient"}})
      \cup ({"one_for_all", "rest_for_one"} \X {<<"transient", t>> :
                                    t \in {"transient", "temporary"}})

PermanentOnly == {<<"one_for_one", <<"permanent">>>>}

(* Three children under REST_FOR_ONE.                                      *)
TransientOnly == {<<"rest_for_one", [s \in Specs |-> "transient"]>>}

(* A backoff is longer than a restart loop: one that ends in a loop began  *)
(* before it.                                                              *)
BackoffsAreLonger ==
    (\E b \in Ids : actors[b].task = "renewing") =>
        \A a \in Ids : actors'[a].task = "backoff" => actors[a].task = "backoff"
=============================================================================
