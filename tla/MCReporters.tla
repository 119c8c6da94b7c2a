---------------------------- MODULE MCReporters ----------------------------
(* Reporters with a handful of reports in few windows. *)
EXTENDS Reporters, TLC

CONSTANTS g1, g2

TwoGoroutines == {g1, g2}
AllSignals == {"violation", "unscopedTx", "staleAllow"}
\* The last reporter has no interest in stale allows.
NoStaleAllow == {"violation", "unscopedTx"}
AnyWrapped == {AllSignals, NoStaleAllow}
CappedSignal == {"unscopedTx"}
OffOrOne == {0, 1}

R(signal, scope, kind, name) ==
  [signal |-> signal, scope |-> scope, kind |-> kind, name |-> name, stack |-> <<>>]
UnscopedTx(stack) ==
  [signal |-> "unscopedTx", scope |-> <<>>, kind |-> <<>>, name |-> <<>>, stack |-> stack]

\* An identity with a violation and a stale allow, and another identity that
\* reads the same without separators.
PairReports ==
  {R("violation", <<"a">>, <<"b">>, <<"b", "c">>),
   R("violation", <<"a">>, <<"b", "b">>, <<"c">>),
   R("staleAllow", <<"a">>, <<"b">>, <<"b", "c">>)}
FirstBaselined == {[scope |-> <<"a">>, kind |-> <<"b">>, name |-> <<"b", "c">>]}
NoneBaselined == {}

\* Application code at a begin site of its own, and what it calls through.
Caller(site) == <<Frame("app", site), Frame("runtime", "goexit")>>
Library == <<Frame("txnpure", "reportUnscopedTx"), Frame("txnpure", "Observe")>>
WrappedDriver == Library \o <<Frame("txnpure", "BeginTx")>>
DatabaseSql == <<Frame("sql", "ctxDriverBegin")>>

\* Two begin sites that talk to a Session themselves, more than the capped map
\* holds, besides the pair.
SessionBegins ==
  PairReports \cup {UnscopedTx(Library \o Caller(site)) : site \in {"site1", "site2"}}
\* Two begin sites that go through database/sql and the wrapped driver.
SqlBegins == {UnscopedTx(WrappedDriver \o DatabaseSql \o Caller(site)) : site \in {"site1", "site2"}}

KeysOf(S) == {throttleKey(r) : r \in S}
SessionKeys == KeysOf(SessionBegins)
SqlKeys == KeysOf(SqlBegins)

\* Goroutines differ in nothing but their name.
Symmetry == Permutations(TwoGoroutines)
=============================================================================
