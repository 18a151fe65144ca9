----------------------------- MODULE Connections -----------------------------
(***************************************************************************)
(* `nats server report connections` and the reports made of the same data   *)
(* (getConnz of cli/server_report_command.go): the connections of every     *)
(* server are read page by page, and those a filter does not want are       *)
(* removed from each page.  Connections come and go between the pages, and  *)
(* servers fail to answer.                                                 *)
(***************************************************************************)
EXTENDS Integers, Sequences, FiniteSets

CONSTANTS
  Hosts,     \* the servers
  PageSize,  \* what the report asks for at a time (1024 in the code)
  MaxConns,  \* bound: connections of a server
  MaxChurn   \* bound: times a connection comes or goes

ASSUME ConnectionsAssumption ==
  PageSize \in Nat \ {0} /\ MaxConns \in Nat /\ MaxChurn \in Nat /\ IsFiniteSet(Hosts)

VARIABLE connz

(* Connections are numbered; a filter, when there is one, wants the odd.    *)
Wants(k) == ~connz.filter \/ k % 2 = 1
Upto(n) == [k \in 1 .. n |-> k]

(* table has the open connections of each server, oldest first; pages what  *)
(* was gathered of them; churn and deaf tell, for the properties, whether   *)
(* all stayed as it was and every server always answered.                   *)
ConnzStarts ==
  {[main |-> "discover", filter |-> f, watching |-> w, table |-> [h \in Hosts |-> Upto(n[h])],
    opened |-> n, offset |-> 0, more |-> FALSE, pages |-> {}, churn |-> 0, deaf |-> FALSE] :
     f \in BOOLEAN, w \in BOOLEAN, n \in [Hosts -> 0 .. MaxConns]}

ConnzOver == connz.main \in {"done", "error"}

(* CurrentActiveServers, unless the number of servers is given.             *)
Discovers ==
  /\ connz.main = "discover"
  /\ \E next \in {"first", "error"} : connz' = [connz EXCEPT !.main = next]

(* What a server answers: a part of its table, and how long the table is.   *)
(* The order within a page, and of the pages, is left out.                  *)
PageOf(h, offset) ==
  LET table == connz.table[h]
  IN [host |-> h, offset |-> offset, total |-> Len(table),
      conns |-> {table[k] : k \in {i \in DOMAIN table : offset < i /\ i <= offset + PageSize}}]

RemoveFiltered(page) == [page EXCEPT !.conns = {c \in @ : Wants(c)}]
HasMore(page) == page.offset + PageSize < page.total

Answered(hosts, offset) == {PageOf(h, offset) : h \in hosts}
NotEmpty(pages) == {page \in pages : page.conns # {}}
RemoveAll(pages) == {RemoveFiltered(page) : page \in pages}

(* The first page: what is empty once it is filtered is left out, also when *)
(* it is asked whether there is more.                                       *)
FirstPage ==
  /\ connz.main = "first"
  /\ \/ connz' = [connz EXCEPT !.main = "error"]
     \/ \E hosts \in SUBSET Hosts :
          LET pages == NotEmpty(RemoveAll(Answered(hosts, 0)))
          IN connz' = [connz EXCEPT !.main = "pages", !.pages = pages, !.offset = 0,
                                    !.more = \E page \in pages : HasMore(page),
                                    !.deaf = hosts # Hosts]

NextOffset(offset) == offset + PageSize + 1

NextPage ==
  /\ connz.main = "pages" /\ connz.more
  /\ \/ connz' = [connz EXCEPT !.main = "error"]
     \/ \E hosts \in SUBSET Hosts :
          LET offset == NextOffset(connz.offset)
              pages == NotEmpty(Answered(hosts, offset))
          IN connz' = [connz EXCEPT !.offset = offset, !.pages = @ \cup RemoveAll(pages),
                                    !.more = \E page \in pages : HasMore(page),
                                    !.deaf = @ \/ hosts # Hosts]

(* The report is drawn; no pages at all are an error.                       *)
Reports ==
  /\ connz.main = "pages" /\ ~connz.more
  /\ connz' = [connz EXCEPT !.main = IF connz.pages = {} THEN "error"
                                     ELSE IF connz.watching THEN "drawn" ELSE "done"]

(* withWatcher: again after an interval, or the end.                        *)
ReportsAgain ==
  /\ connz.main = "drawn"
  /\ connz' = [connz EXCEPT !.main = "first", !.pages = {}, !.churn = 0]

ReportInterrupted == connz.main = "drawn" /\ connz' = [connz EXCEPT !.main = "done"]

Without(s, k) == [i \in 1 .. Len(s) - 1 |-> IF i < k THEN s[i] ELSE s[i + 1]]

Churns(h) ==
  /\ connz.main \in {"first", "pages"} /\ connz.churn < MaxChurn
  /\ \/ /\ connz.opened[h] < MaxConns
        /\ connz' = [connz EXCEPT !.churn = @ + 1, !.opened[h] = @ + 1,
                                  !.table[h] = Append(@, connz.opened[h] + 1)]
     \/ \E k \in DOMAIN connz.table[h] :
          connz' = [connz EXCEPT !.churn = @ + 1, !.table[h] = Without(@, k)]

ConnzRuns == Discovers \/ FirstPage \/ NextPage \/ Reports \/ ReportsAgain
ConnzStep == ConnzRuns \/ ReportInterrupted \/ \E h \in Hosts : Churns(h)

-----------------------------------------------------------------------------
(* flatConnInfo.                                                            *)
PagesOf(h) == {page \in connz.pages : page.host = h}
Listed(h) == UNION {page.conns : page \in PagesOf(h)}

ConnzTypeOK ==
  /\ connz.main \in {"discover", "first", "pages", "drawn", "done", "error"}
  /\ connz.table \in [Hosts -> Seq(1 .. MaxConns)] /\ connz.churn \in 0 .. MaxChurn

(* No connection is listed twice, whatever comes and goes, and none that    *)
(* the filter does not want.  When nothing comes and goes, every server     *)
(* answers and nothing is filtered all are listed but the last of every     *)
(* PageSize + 1, which the offset of the next page leaves out (getConnz).   *)
ConnectionsOnce ==
  \A h \in Hosts :
    /\ \A p, q \in PagesOf(h) : p # q => p.conns \cap q.conns = {}
    /\ \A c \in Listed(h) : Wants(c)
    /\ connz.main \in {"drawn", "done"} /\ connz.churn = 0 /\ ~connz.deaf /\ ~connz.filter =>
         Listed(h) =
           {connz.table[h][k] : k \in {i \in DOMAIN connz.table[h] : i % (PageSize + 1) # 0}}
=============================================================================
