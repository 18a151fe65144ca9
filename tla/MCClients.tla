---------------------------- MODULE MCClients ----------------------------
(* Clients with each kind of command line: with and without stdin, sent   *)
(* on EOF and on newlines, and with headers that cannot be parsed.          *)
EXTENDS Clients

CONSTANTS r1, s1, s2, h1, h2, g1, g2, n1, n2

Line(kind, sendOn, stdin, count) ==
  [kind |-> kind, sendOn |-> sendOn, stdin |-> stdin, count |-> count,
   headers |-> TRUE, replyTo |-> FALSE]

MCJobs ==
  {Line(k, s, FALSE, 2) : k \in {"core", "js"}, s \in {"eof", "newline"}}
    \cup {Line(k, "newline", TRUE, n) : k \in {"js", "atomic"}, n \in 1 .. 2}
    \cup {Line(k, "newline", TRUE, 1) : k \in {"core", "req"}}
    \cup {Line(k, "eof", TRUE, n) : k \in {"core", "js", "req"}, n \in 1 .. 2}
    \cup {Line("req", "eof", FALSE, 2)}
    \cup {[Line(k, "newline", TRUE, 1) EXCEPT !.headers = FALSE] : k \in {"core", "js", "atomic"}}
    \cup {[Line("core", "eof", TRUE, 2) EXCEPT !.replyTo = TRUE]}

MCAtomic == {Line("atomic", "newline", TRUE, n) : n \in 1 .. 2}

MCRepliers == {r1}

(* Checks that keep a connection, or make one, or need none, or are unknown.*)
MCChecks ==
  <<[kind |-> "connecting", reuse |-> TRUE], [kind |-> "unknown", reuse |-> FALSE],
    [kind |-> "alone", reuse |-> FALSE], [kind |-> "connecting", reuse |-> FALSE]>>
=============================================================================
