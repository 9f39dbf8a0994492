---------------------------- MODULE PublicReads -----------------------------
(***************************************************************************)
(* A client of the public API while the raffle goes on: it asks for the    *)
(* pool and then for the entries page by page, or for the result.  Each    *)
(* query is one action; public_result is four queries outside a            *)
(* transaction, and anything may be committed between two of them.         *)
(***************************************************************************)
EXTENDS DrawProof

CONSTANT Limit           \* entries per page, clamped to 1 .. 100 by list_entries

VARIABLE client          \* what the client has been told so far

ASSUME PublicReadsAssumption == Limit \in Nat \ {0}

allvars == <<vars, client>>

NoResult == [status |-> Null, winning_ticket |-> Null, payout_statuses |-> Null,
             proof_available |-> Null]

ClientInit ==
  client = [step |-> "idle", cursor |-> 0, pool |-> Null, pages |-> << >>,
            read |-> 0, result |-> NoResult]

-----------------------------------------------------------------------------
public_pool ==
  /\ client.step = "idle"
  /\ client' = [client EXCEPT !.step = "pages",
                  !.pool = [total_pool_sats |-> raffle.total_pool_sats,
                            total_tickets |-> raffle.total_tickets,
                            entry_chain_head |-> raffle.entry_chain_head]]
  /\ UNCHANGED vars

\* ORDER BY entry_index: the row at place i has i - 1 rows before it.
Before(found, k) == {l \in found : entries[l].entry_index < entries[k].entry_index}

Ordered(found) ==
  [i \in 1 .. Cardinality(found) |->
     entries[CHOOSE k \in found : Cardinality(Before(found, k)) = i - 1]]

First(rows, n) == SubSeq(rows, 1, IF Len(rows) < n THEN Len(rows) ELSE n)

\* Mutant: the cursor is taken for the last entry of the previous page.
RowsFromPrevious(cursor, n) ==
  First(Ordered({k \in DOMAIN entries : entries[k].entry_index + 1 >= cursor}), n)

\* The query of public_entries: WHERE entry_index >= cursor ... LIMIT n.
RowsFrom(cursor, n) ==
  First(Ordered({k \in DOMAIN entries : entries[k].entry_index >= cursor}), n)

\* Mutant: a full page is taken for the last one.
has_more_full(rows) == Len(rows) > Limit + 1

\* One row more than the page holds tells whether there is another page.
has_more(rows) == Len(rows) > Limit

public_entries ==
  LET rows == RowsFrom(client.cursor, Limit + 1)
  IN  /\ client.step = "pages"
      /\ client' = [client EXCEPT
           !.pages = @ \o SubSeq(rows, 1, IF has_more(rows) THEN Limit ELSE Len(rows)),
           !.cursor = IF has_more(rows) THEN @ + Limit ELSE @,
           !.step = IF has_more(rows) THEN "pages" ELSE "complete"]
      /\ UNCHANGED vars

-----------------------------------------------------------------------------
\* Mutant: the status is read last.
QueriesStatusLast == <<"winning_ticket", "payout_statuses", "proof_available", "status">>

Queries == <<"status", "winning_ticket", "payout_statuses", "proof_available">>

Answer(q) ==
  CASE q = "status" -> raffle.status
    [] q = "winning_ticket" -> IF draws = Null THEN Null ELSE draws.winning_ticket
    [] q = "payout_statuses" -> [p \in Recipients |-> payouts[p].status]
    [] q = "proof_available" -> proof # Null

public_result ==
  /\ client.step \in {"idle", "result"}
  /\ client.read < Len(Queries)
  /\ LET q == Queries[client.read + 1]
     IN  client' = [client EXCEPT !.step = "result", !.read = @ + 1, !.result[q] = Answer(q)]
  /\ UNCHANGED vars

-----------------------------------------------------------------------------
ClientNext == public_pool \/ public_entries \/ public_result

PublicInit == Init /\ ClientInit

PublicNext == (Next /\ UNCHANGED client) \/ ClientNext

PublicSpec == PublicInit /\ [][PublicNext]_allvars

-----------------------------------------------------------------------------
(* What is checked. *)

\* When a client is told that there is no further page, the pages it has are
\* the whole ledger of that moment, without gap or repetition, although entries
\* were appended while it was reading (next_cursor, has_more).
PagesComplete ==
  [][client.step # "complete" /\ client'.step = "complete" => client'.pages = entries]_allvars

\* The pool a client was told of is found again in the pages it reads later:
\* some entry closes the chain and the ticket range that the pool named.
PoolInPages ==
  client.step = "complete" /\ client.pool.total_tickets # 0 =>
    \E k \in DOMAIN client.pages :
      /\ client.pages[k].entry_hash = client.pool.entry_chain_head
      /\ client.pages[k].ticket_end = client.pool.total_tickets

\* A result is never ahead of its facts: a status that says drawn comes with
\* the winning ticket, one that says paid out with settled payouts, although
\* the four queries see different moments.
ResultSupported ==
  client.read = Len(Queries) =>
    /\ client.result.status \in Drawn => client.result.winning_ticket = draws.winning_ticket
    /\ client.result.status = "PAID_OUT" =>
         \A p \in Recipients : client.result.payout_statuses[p] # "pending"
=============================================================================
