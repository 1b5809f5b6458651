----------------------------- MODULE ServerInv ------------------------------
(***************************************************************************)
(* The inductive invariants behind the safety properties of Server.        *)
(***************************************************************************)
EXTENDS Server

\* The request is authenticated, or refused: what is known of it is final.
Settled(r) == st[r] \notin {"new", "auth", "scan"}

\* The principal of the request is the token it presented.
Identified(r) == Settled(r) /\ principal[r] = req[r].secret /\ principal[r] # None

\* Some configured token with this value has this role.
HasRole(s, rl) == \E i \in Matches(s) : AuthTokens[i].role = rl

\* The token cache is sound, and a request in its handler has the role and the
\* principal of its token; /db/query has the read-only role.
Authentic ==
    /\ \A s \in Secrets : cache[s] # None => HasRole(s, cache[s])
    /\ \A r \in Requests : st[r] = "scan" => ~authIsDisabled /\ Presented(req[r]) # None
    /\ \A r \in Requests : InHandler(r) =>
          /\ req[r].route \in Handled
          /\ req[r].route = "query" => role[r] = "ro"
          /\ ~authIsDisabled =>
                Identified(r) /\ (req[r].route = "query" \/ HasRole(req[r].secret, role[r]))

\* The gauges, with the finiteness that Cardinality needs.
Gauges ==
    /\ IsFiniteSet({r \in Requests : InHandler(r)})
    /\ IsFiniteSet({r \in Requests : InHandler(r) \/
                          (st[r] = "done" /\ req[r].route \in Handled)})
    /\ GaugeMatches

\* SQLite has no transaction but that of the manager.  A BEGIN that has not
\* stored its owner is in its handler, so no client knows its id yet.
Announced ==
    /\ open # None => dbTxID = open
    /\ \A r \in Requests :
          /\ begun[r] # None => begun[r][1] = r /\ InHandler(r)
          /\ req[r].txId \in known \cup {None}
          /\ txId[r] \in {None, <<r, 0>>}
    /\ \A t \in known : st[t[1]] = "done"

\* The principals that the manager may have for the owner of transaction t: that
\* of the request that began it, and those of the BEGINs that came late.
Holders(t) == {principal[r] : r \in {q \in Requests : q = t[1] \/ <<q, t>> \in stray}}

\* The current transaction is owned by one of them, and so is every write under
\* the id of a transaction.
Owned ==
    /\ \A s \in stray : Settled(s[1])
    /\ dbTxID # None => Settled(dbTxID[1])
    /\ Published => owner \in Holders(dbTxID)
    /\ ~authIsDisabled =>
          /\ dbTxID # None => Identified(dbTxID[1])
          /\ \A s \in stray : Identified(s[1])
          /\ \A w \in wrote :
                /\ Identified(w[1][1]) /\ Identified(w[2][1])
                /\ principal[w[1][1]] \in Holders(w[2])

\* A row is there because a request that may write had it in its script.
Written ==
    /\ \A row \in store \cup buf : Settled(row[1]) /\ row \in RowsBy(row[1])
    /\ ReadersNeverWrite

AuthInv == Authentic /\ Gauges /\ Announced /\ Owned /\ Written
-----------------------------------------------------------------------------
\* The transactions that the server begins for a request.

\* No client is told their ids, so none can name them.
Unnamed ==
    /\ \A t \in known : t[2] # 0
    /\ \A r \in Requests : req[r].txId # None => req[r].txId[2] # 0

\* A request with the parameter has its transaction once it runs statements.
HasTxOf(r) ==
    /\ req[r].transaction => req[r].route \in Handled
    /\ txId[r] \in {None, <<r, 0>>}
    /\ txId[r] # None =>
          /\ st[r] \in {"run", "rollback", "commit", "answer", "done"}
          /\ req[r].transaction /\ req[r].script # <<>>
          /\ Permits(role[r], Needs("rollback"))
    /\ ~Settled(r) \/ st[r] \in {"begin", "refused"} => results[r] = <<>>
    /\ st[r] = "begin" => req[r].transaction /\ req[r].script # <<>>
    /\ st[r] = "run" /\ req[r].transaction => txId[r] # None \/ req[r].script = <<>>
    /\ st[r] \in {"rollback", "commit"} => txId[r] # None

HasTx == \A r \in Requests : HasTxOf(r)

\* The place in the loop, and what the results say of it.
InLoopOf(r) ==
    /\ st[r] = "run" => Len(results[r]) <= Len(req[r].script)
    /\ st[r] = "run" /\ req[r].script # <<>> => Len(results[r]) < Len(req[r].script)
    /\ st[r] = "commit" => Len(results[r]) = Len(req[r].script)
    /\ st[r] \in {"run", "commit"} /\ txId[r] # None => ~HasError(r)
    /\ st[r] = "rollback" => HasError(r)
    /\ st[r] = "run" /\ req[r].script = <<>> => results[r] = <<>>

InLoop == \A r \in Requests : InLoopOf(r)

\* The rows of a request with the parameter are held back while its transaction
\* is open, and stored when its answer has no error.  SQLite does not leave the
\* transaction before its loop is over.
HeldBackOf(r) ==
    req[r].transaction =>
        /\ (HasError(r) \/ st[r] \notin {"answer", "done"}) => \A row \in store : row[1] # r
        /\ st[r] \in {"run", "commit"} /\ dbTxID = <<r, 0>> =>
              /\ open = <<r, 0>>
              /\ \A i \in DOMAIN results[r] : req[r].script[i] = "write" => <<r, i>> \in buf
        /\ st[r] \in {"answer", "done"} /\ ~HasError(r) => RowsBy(r) \subseteq store

AllHeldBack ==
    /\ \A row \in buf : req[row[1]].transaction => open = <<row[1], 0>>
    /\ \A r \in Requests : HeldBackOf(r)

\* OpenOnlyAfterFailedEnd, from the end of the transaction on.
EndedOrFailed ==
    \A r \in Requests :
        (st[r] \in {"answer", "done"} /\ txId[r] # None /\ dbTxID = txId[r]) =>
            \/ r \in cancelled
            \/ Len(results[r]) > Len(req[r].script)
            \/ open = None
            \/ \E s \in stray : s[2] = txId[r]

ScriptInv == Unnamed /\ HasTx /\ InLoop /\ EndedOrFailed

\* The hypothesis of AllHeldBack: no client puts a COMMIT of its own among the
\* writes that it wants to be one transaction.
NoOwnCommit ==
    \A s \in Scripts : \A i, j \in DOMAIN s : ~(s[i] = "commit" /\ s[j] = "write")
=============================================================================
