--------------------------- MODULE PaperPortfolio ---------------------------
(***************************************************************************)
(* Paper events and what is made of them: the constructors and the strict  *)
(* projection of modules/portfolio/portfolio.ts, and the lenient one with  *)
(* which the ledger rebuilds itself (modules/ledger/replay.ts).            *)
(*                                                                         *)
(* The tests of floating-point numbers for being finite are left out; the  *)
(* projection compares amounts that are exact here.  createdAt stands for  *)
(* the rest of the payload that is compared and not used.                  *)
(***************************************************************************)
EXTENDS Integers, FiniteSets, SequencesExt

CONSTANTS
    Symbols,   \* ticker symbols
    NoSymbol   \* "the event has no symbol"

ASSUME SymbolAssumption == NoSymbol \notin Symbols /\ IsFiniteSet(Symbols)

Exits == {"exit", "stop", "expiry"}

\* Event ids are numbers; a correction names the id of the event it corrects.
NoEvent == 0

-----------------------------------------------------------------------------
(* Constructors *)

EntryEvent(id, s, shares, fill, at) ==
    [id |-> id, type |-> "entry", symbol |-> s, cash |-> -(shares * fill),
     shares |-> shares, price |-> fill, corrects |-> NoEvent, at |-> at]

\* Bug: the shares are taken out and nothing is paid for them.
ExitWithoutProceeds(id, s, shares, fill, type, at) ==
    [id |-> id, type |-> type, symbol |-> s, cash |-> 0,
     shares |-> -shares, price |-> fill, corrects |-> NoEvent, at |-> at]

ExitEvent(id, s, shares, fill, type, at) ==
    [id |-> id, type |-> type, symbol |-> s, cash |-> shares * fill,
     shares |-> -shares, price |-> fill, corrects |-> NoEvent, at |-> at]

MarkEvent(id, s, price, at) ==
    [id |-> id, type |-> "mark", symbol |-> s, cash |-> 0, shares |-> 0,
     price |-> price, corrects |-> NoEvent, at |-> at]

\* The ratio is num / den; createSplitEvent throws for a fraction of a share.
SplitDefined(before, num, den) ==
    before > 0 /\ (before * num) % den = 0

SplitEvent(id, s, before, num, den, at) ==
    [id |-> id, type |-> "split", symbol |-> s, cash |-> 0,
     shares |-> (before * num) \div den - before, price |-> 0, corrects |-> NoEvent, at |-> at]

CorrectionEvent(id, corrected, cash, at) ==
    [id |-> id, type |-> "correction", symbol |-> NoSymbol, cash |-> cash, shares |-> 0,
     price |-> 0, corrects |-> corrected, at |-> at]

DepositEvent(id, cash, at) ==
    [id |-> id, type |-> "deposit", symbol |-> NoSymbol, cash |-> cash, shares |-> 0,
     price |-> 0, corrects |-> NoEvent, at |-> at]

CashDividendEvent(id, s, shares, perShare, at) ==
    [id |-> id, type |-> "cash_dividend", symbol |-> s, cash |-> shares * perShare,
     shares |-> 0, price |-> perShare, corrects |-> NoEvent, at |-> at]

-----------------------------------------------------------------------------
(* The portfolio's projection *)

\* validateEvent
ValidEvent(e) ==
    /\ e.shares # 0 \/ e.type = "mark" => e.symbol # NoSymbol
    /\ e.type = "entry" => e.price > 0 /\ e.shares > 0 /\ e.cash = -e.shares * e.price
    /\ e.type \in Exits => e.price > 0 /\ e.shares < 0 /\ e.cash = -e.shares * e.price
    /\ e.type = "mark" => e.cash = 0 /\ e.shares = 0 /\ e.price > 0
    /\ e.type = "split" => e.cash = 0 /\ e.shares # 0
    /\ e.type = "cash_dividend" => e.cash > 0 /\ e.shares = 0 /\ e.price > 0

Nothing == [ok |-> TRUE, cash |-> 0, shares |-> [s \in Symbols |-> 0],
            mark |-> [s \in Symbols |-> 0], seen |-> {}]

\* Whether the position of an event's symbol can take it.
FitsPosition(p, e) ==
    e.symbol # NoSymbol =>
        /\ p.shares[e.symbol] + e.shares >= 0
        /\ e.type = "split" => p.shares[e.symbol] > 0
        /\ e.type = "cash_dividend" => e.cash = p.shares[e.symbol] * e.price

NextMark(p, e) ==
    LET held == p.shares[e.symbol] IN
    IF e.type = "split" THEN IF held + e.shares > 0
                             THEN (held * p.mark[e.symbol]) \div (held + e.shares)
                             ELSE p.mark[e.symbol]
    ELSE IF e.price # 0 /\ e.type # "cash_dividend" THEN e.price
    ELSE p.mark[e.symbol]

Applied(p, e) ==
    LET With(f, x) == IF e.symbol = NoSymbol THEN f ELSE [f EXCEPT ![e.symbol] = x]
    IN  [ok |-> p.ok, cash |-> p.cash + e.cash, seen |-> p.seen \cup {e},
         shares |-> With(p.shares, p.shares[e.symbol] + e.shares),
         mark |-> With(p.mark, NextMark(p, e))]

\* Bug: an event that is there again is applied again.
ProjectEveryTime(p, e) ==
    IF ~p.ok THEN p
    ELSE IF \/ \E d \in p.seen : d.id = e.id /\ d # e
            \/ ~ValidEvent(e) \/ ~FitsPosition(p, e)
    THEN [p EXCEPT !.ok = FALSE]
    ELSE Applied(p, e)

\* One round of projectPaperPortfolio; ok is FALSE from where it threw.
ProjectEvent(p, e) ==
    IF ~p.ok \/ e \in p.seen THEN p
    ELSE IF \/ \E d \in p.seen : d.id = e.id
            \/ ~ValidEvent(e) \/ ~FitsPosition(p, e)
    THEN [p EXCEPT !.ok = FALSE]
    ELSE Applied(p, e)

ProjectPaperPortfolio(events) == FoldLeft(ProjectEvent, Nothing, events)

Projects(events) == ProjectPaperPortfolio(events).ok

MarketValue(p) == SumFunction([s \in Symbols |-> p.shares[s] * p.mark[s]])

EquityOf(p) == p.cash + MarketValue(p)

-----------------------------------------------------------------------------
(* The ledger *)

\* appendPaperEvent (in-memory.ts, and append_paper_event in SQL): the id is
\* new and a correction names an event that is there.  What the event does to
\* the position it names is not looked at.
Appendable(events, e) ==
    /\ \A i \in DOMAIN events : events[i].id # e.id
    /\ (e.type = "correction") <=> (e.corrects # NoEvent)
    /\ e.corrects # NoEvent => \E i \in DOMAIN events : events[i].id = e.corrects
    /\ e.shares # 0 => e.symbol # NoSymbol

\* rebuildLedgerProjection, its part about paper events
NoBooks == [cash |-> 0, shares |-> [s \in Symbols |-> 0]]
Book(b, e) ==
    [cash |-> b.cash + e.cash,
     shares |-> IF e.symbol = NoSymbol THEN b.shares
                ELSE [b.shares EXCEPT ![e.symbol] = @ + e.shares]]
RebuildBooks(events) == FoldLeft(Book, NoBooks, events)
=============================================================================
