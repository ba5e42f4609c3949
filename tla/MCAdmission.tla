---------------------------- MODULE MCAdmission ------------------------------
(* Small instance of Admission: two reviews and a stealer on one broker.     *)
EXTENDS Admission, TLC

CONSTANTS x1, x2, w1

\* FilterLabel and FailedLabel take part in label maps, so they are strings.
Filter == "NoWorkLoadSteal"
Failure == "StolenOneFailed"
Spellings == {"false", "False"}

Plain == [sound |-> TRUE, kind |-> "Pod", operation |-> "CREATE", decodes |-> TRUE,
          labels |-> [app |-> "front"], namespace |-> "shop"]
Reviewed == {Plain,
  [Plain EXCEPT !.labels = Filter :> "False" @@ Failure :> "false"],
  [Plain EXCEPT !.labels = Filter :> ""],
  [Plain EXCEPT !.labels = Failure :> "true"],
  [Plain EXCEPT !.namespace = "kube-system"],
  [Plain EXCEPT !.namespace = "hiro"],
  [Plain EXCEPT !.kind = "Job", !.decodes = FALSE],
  [Plain EXCEPT !.operation = "UPDATE"],
  [Plain EXCEPT !.kind = "Deployment"],
  [Plain EXCEPT !.sound = FALSE]}

\* The second one is no regular expression.
Configured == {[valid |-> TRUE, matches |-> {"hiro"}], [valid |-> FALSE, matches |-> {}]}
BuiltIn    == {[valid |-> TRUE, matches |-> {"kube-system"}]}

Once == [kind \in Kinds |-> 1]
==============================================================================
