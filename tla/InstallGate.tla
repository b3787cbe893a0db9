---------------------------- MODULE InstallGate -----------------------------
(* checkInstallConfig: whether a registration may go ahead, from what the     *)
(* installing process has observed, and what it tells the operator.           *)

\* Mutant: the sample URL of config.example.json counts as a configuration.
PassesWithSample(f) == f.loaded /\ f.webhookSet

\* The verdict's OK.
Passes(f) == f.loaded /\ f.webhookSet /\ ~f.placeholder

\* The notes that depend on the case: each variable that is set is named; on a pass
\* the operator is told which file the registration will read, on a refusal what
\* a machine-wide DISCORD_WEBHOOK_URL is worth.
Notes(f) ==
  {n \in {"webhook variable", "config variable", "reads this file", "inherits the variable",
          "notice is off"} :
     \/ n = "webhook variable" /\ f.envWebhookSet
     \/ n = "config variable" /\ f.envConfigSet
     \/ n = "reads this file" /\ f.envConfigSet /\ Passes(f)
     \/ n = "inherits the variable" /\ f.envWebhookSet /\ ~Passes(f)
     \/ n = "notice is off" /\ f.loaded /\ f.forService /\ ~f.shutdownStart}

\* installGate: a refusal can be overridden.
InstallGate(f, allowUnconfigured) == Passes(f) \/ allowUnconfigured
=============================================================================
