----------------------------- MODULE Discovery -----------------------------
(***************************************************************************)
(* Market discovery (fetch_active_markets and _fetch_page of               *)
(* src/lifecycle/api.py, _discovery_loop of src/lifecycle/controller.py):  *)
(* the listing is read page by page, by offset, while markets open and     *)
(* close in it.  What is done with the markets found (the step that makes  *)
(* them known) is DiscoverMarkets of module LifecycleController.           *)
(*                                                                         *)
(* The listing is the exchange's and external: the open markets, newest    *)
(* first.  There is no clock: a sleep ends at any time.                    *)
(***************************************************************************)
EXTENDS Naturals, FiniteSets

CONSTANTS
    MaxMarkets,     \* bound: markets that ever open; their ids ascend
    PageSize,       \* DEFAULT_PAGE_SIZE (500)
    MaxRetries      \* MAX_RETRIES (3)

ASSUME MaxMarketsAssumption == MaxMarkets \in Nat
ASSUME PageSizeAssumption == PageSize \in Nat \ {0}
ASSUME MaxRetriesAssumption == MaxRetries \in Nat \ {0}

Markets == 1..MaxMarkets

(* What the client makes of a market's record: "invalid" lacks a required  *)
(* field and is left out, "unparsable" makes _parse_market raise (a null   *)
(* where a list is required).                                              *)
Kinds == {"valid", "invalid", "unparsable"}

VARIABLES
    kind,       \* market -> what its record is
    opened,     \* the newest market
    listed,     \* the open markets
    pc,         \* "sleeping" between fetches, "requesting" a page, "retrying" (the wait), "stopped"
    offset,     \* of the page requested
    attempt,    \* failed requests of this page
    found,      \* all_markets, without its repetitions
    known,      \* _known_conditions
    throughout, \* history: the markets listed ever since this fetch began
    closings    \* history: markets closed since this fetch began

listing == <<kind, opened, listed>>
history == <<throughout, closings>>
vars == <<listing, pc, offset, attempt, found, known, history>>

TypeOK ==
    /\ kind \in [Markets -> Kinds]
    /\ opened \in 0..MaxMarkets /\ listed \subseteq 1..opened
    /\ pc \in {"sleeping", "requesting", "retrying", "stopped"}
    /\ offset \in Nat /\ attempt \in 0..(MaxRetries - 1)
    /\ found \subseteq Markets /\ known \subseteq Markets
    /\ throughout \subseteq listed /\ closings \in Nat

Init ==
    /\ kind \in [Markets -> Kinds]
    /\ opened \in 0..MaxMarkets /\ listed = 1..opened
    /\ pc = "sleeping"
    /\ offset = 0 /\ attempt = 0
    /\ found = {} /\ known = {}
    /\ throughout = {} /\ closings = 0

Valid(S) == {m \in S : kind[m] = "valid"}
Parsable(S) == \A m \in S : kind[m] # "unparsable"

(* The offsets of the pages of a fetch.                                    *)
Offsets == {o \in 0..MaxMarkets : o % PageSize = 0}

(* How many markets come before m in the listing.                          *)
Rank(m) == Cardinality({n \in listed : n > m})

(* The page at offset o.                                                   *)
Page(o) == {m \in listed : Rank(m) \in o..(o + PageSize - 1)}

-----------------------------------------------------------------------------
(* The exchange.                                                           *)

OpenMarket ==
    /\ opened < MaxMarkets
    /\ opened' = opened + 1
    /\ listed' = listed \cup {opened + 1}
    /\ UNCHANGED <<kind, pc, offset, attempt, found, known, history>>

CloseMarket(m) ==
    /\ m \in listed
    /\ listed' = listed \ {m}
    /\ throughout' = throughout \ {m}
    /\ closings' = IF pc \in {"requesting", "retrying"} THEN closings + 1 ELSE closings
    /\ UNCHANGED <<kind, opened, pc, offset, attempt, found, known>>

-----------------------------------------------------------------------------
(* The discovery loop.                                                     *)

BeginFetch ==
    /\ pc = "sleeping"
    /\ pc' = "requesting"
    /\ throughout' = listed
    /\ UNCHANGED <<listing, offset, attempt, found, known, closings>>

FaultyForget ==
    /\ attempt' = 0 /\ found' = {}
    /\ throughout' = {} /\ closings' = 0
    /\ UNCHANGED offset

(* The variables of a fetch go with it.                                    *)
Forget ==
    /\ offset' = 0 /\ attempt' = 0 /\ found' = {}
    /\ throughout' = {} /\ closings' = 0

(* The fetch is over and its markets F become known.                       *)
EndFetch(F) ==
    /\ pc' = "sleeping"
    /\ known' = known \cup F
    /\ Forget

FaultyPageOk(o) ==
    /\ pc = "requesting" /\ offset = o
    /\ Parsable(Page(o))
    /\ LET markets == Valid(Page(o))
       IN  IF Cardinality(markets) < PageSize
           THEN EndFetch(found \cup markets)
           ELSE /\ found' = found \cup markets
                /\ offset' = o + PageSize
                /\ attempt' = 0
                /\ UNCHANGED <<pc, known, history>>
    /\ UNCHANGED listing

(* A page arrives.  One without a valid market ends the fetch, as does one *)
(* that is not full.                                                       *)
PageOk(o) ==
    /\ pc = "requesting" /\ offset = o
    /\ Parsable(Page(o))
    /\ LET markets == Valid(Page(o))
       IN  IF markets = {} \/ Cardinality(Page(o)) < PageSize
           THEN EndFetch(found \cup markets)
           ELSE /\ found' = found \cup markets
                /\ offset' = o + PageSize
                /\ attempt' = 0
                /\ UNCHANGED <<pc, known, history>>
    /\ UNCHANGED listing

(* aiohttp.ClientError: wait and request the page again; the last one fails*)
(* the fetch, and what its pages held is lost.                             *)
PageClientError ==
    /\ pc = "requesting"
    /\ IF attempt < MaxRetries - 1
       THEN /\ pc' = "retrying"
            /\ attempt' = attempt + 1
            /\ UNCHANGED <<offset, found, known, history>>
       ELSE EndFetch({})
    /\ UNCHANGED listing

RetryOver ==
    /\ pc = "retrying"
    /\ pc' = "requesting"
    /\ UNCHANGED <<listing, offset, attempt, found, known, history>>

(* Any other exception fails the fetch at once: a timeout, or a market of  *)
(* the page that cannot be parsed.                                         *)
PageOtherError ==
    /\ pc = "requesting"
    /\ EndFetch({})
    /\ UNCHANGED listing

(* stop() cancels the loop, whose CancelledError no fetch handler catches. *)
Stop ==
    /\ pc # "stopped"
    /\ pc' = "stopped"
    /\ Forget
    /\ UNCHANGED <<listing, known>>

Next ==
    \/ OpenMarket
    \/ \E m \in Markets : CloseMarket(m)
    \/ BeginFetch
    \/ \E o \in Offsets : PageOk(o)
    \/ PageClientError \/ RetryOver \/ PageOtherError
    \/ Stop

Spec == Init /\ [][Next]_vars

(* Sleeps end, a request is answered in one way or another, and one made   *)
(* again and again for the same offset is answered well some time.         *)
Fairness ==
    /\ WF_vars(BeginFetch) /\ WF_vars(RetryOver)
    /\ WF_vars((\E o \in Offsets : PageOk(o)) \/ PageClientError \/ PageOtherError)
    /\ \A o \in Offsets : SF_vars(PageOk(o))

FairSpec == Spec /\ Fairness

-----------------------------------------------------------------------------
Blank(S) == Cardinality(S) = PageSize /\ Valid(S) = {}

(* A fetch that succeeds leaves unknown no more of the valid markets listed*)
(* all the while than markets closed meanwhile: each of those moves the    *)
(* rest of the listing up by one, past a page boundary unread.  Openings   *)
(* skip nothing.  The exception is a full page without a valid market,     *)
(* which ends the fetch (the docstring has all markets returned).          *)
NothingSkipped ==
    [][\A o \in Offsets : PageOk(o) /\ pc' = "sleeping" /\ ~Blank(Page(o)) =>
        Cardinality(Valid(throughout) \ known') <= closings]_vars

(* Every valid market that stays listed becomes known, however often pages *)
(* fail or shift, unless the fetch cannot get there: a market that cannot  *)
(* be parsed is listed, wherever it is, or a full page without a valid     *)
(* market comes before it.                                                 *)
Reachable(m) ==
    /\ Parsable(listed)
    /\ \A o \in Offsets : o + PageSize <= Rank(m) => ~Blank(Page(o))

EventuallyKnown ==
    \A m \in Markets :
        kind[m] = "valid" /\ m \in listed
            ~> m \in known \/ m \notin listed \/ ~Reachable(m) \/ pc = "stopped"

=============================================================================
