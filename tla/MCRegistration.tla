--------------------------- MODULE MCRegistration ---------------------------
(* Every kind of file in some place, two variables each for the operator and *)
(* for the machine, and one edit at any moment.                              *)
EXTENDS Registration

URL(scheme, host, sample) ==
  [set |-> TRUE, parses |-> TRUE, scheme |-> scheme, host |-> host, sample |-> sample]

Good == URL("https", "remote", FALSE)
Sample == URL("https", "remote", TRUE)
Plain == URL("http", "remote", FALSE)

File(kind, url, start) == [kind |-> kind, url |-> url, start |-> start]
Without(kind) == File(kind, NoURL, FALSE)
Configured(url) == File("config", url, TRUE)

MCKinds ==
  [named |-> {Without("absent"), Without("broken"), Configured(Good)},
   beside |-> {Without("absent"), Without("odd"), Configured(NoURL), Configured(Sample), Configured(Good)},
   programdata |-> {Without("absent"), Without("barred"), Without("locked"),
                    File("private", Good, TRUE), File("config", Plain, FALSE)},
   elsewhere |-> {Without("absent")}]

MCVariables == {Nothing, [Nothing EXCEPT !.config = "named"], [Nothing EXCEPT !.webhook = Good]}

MCExplicit == {None, "relative"}
=============================================================================
