------------------------------- MODULE SystemConfig -------------------------------
(***************************************************************************)
(* The configuration page: items, revisions, and the version check that is *)
(* to keep two editors apart.  Every line of the page's life is a          *)
(* statement of its own: read the version, read the items, compare the     *)
(* version, write item after item, and last of all create a new revision.  *)
(* The market-source page writes one of the items without a check.         *)
(*                                                                         *)
(* A definition with an underscore in its name is the next one with a      *)
(* mistake in it.                                                          *)
(***************************************************************************)
EXTENDS ApiRequests

CONSTANTS
    BuiltinKey,     \* the one built-in item, MARKET_DATA_SOURCE
    OtherKeys,      \* items that the page may edit
    Values,         \* values of items
    Default         \* the value every item starts with

ASSUME ConfigConstants == /\ BuiltinKey \notin OtherKeys
                          /\ Default \in Values /\ None \notin Values

Keys == {BuiltinKey} \cup OtherKeys

VARIABLES
    envKeys,    \* external: the items that the .env file holds
    item,       \* item[k]: the value of k, None for no row
    version,    \* the latest revision, 0 for none; versions are numbered
    published,  \* history: the items when that revision was created
    torn        \* history: a writer failed after it wrote and before its
                \* revision, and none was created since

configVars == <<envKeys, item, version, published, torn>>

Items == [Keys -> Values \cup {None}]

\* An edit carries the page it was made from: the version, then the items.
EditCall == [op : {"edit"}, version : Nat, seen : {None} \cup Items,
             change : {None} \cup [OtherKeys -> Values \cup {None}]]
MarketCall == [op : {"market"}, value : Values]

ConfigTypeOK ==
    /\ envKeys \subseteq OtherKeys
    /\ item \in Items
    /\ version \in Nat
    /\ published \in Items
    /\ torn \in BOOLEAN

\* A first start, where .env may hold the other items or nothing.
ConfigInit ==
    /\ envKeys \in SUBSET OtherKeys
    /\ item = [k \in Keys |-> None]
    /\ version = 0
    /\ published = item
    /\ torn = FALSE

Revise == /\ UNCHANGED envKeys
          /\ version' = version + 1
          /\ published' = item'
          /\ torn' = FALSE

\* Bound: the page and the edit made on it are one request, so that no page
\* outlives the process that gave it out.
EditRequest(c) ==
    /\ Arrive(c, "seedConfig", [op |-> "edit", version |-> 0, seen |-> None,
                                change |-> None])
    /\ UNCHANGED configVars

MarketRequest(c) ==
    /\ \E v \in Values : Arrive(c, "seedConfig", [op |-> "market", value |-> v])
    /\ UNCHANGED configVars

AfterSeed(r) == IF r.op = "market" THEN "writeMarket" ELSE "readVersion"

\* ensureSeeded: the rows there are; in an empty table the rows of .env, which
\* createMany inserts all or none, as keys are unique; the built-in row, if it
\* is missing; and a revision, if anything was inserted.
SeedConfig(c) ==
    /\ pc[c] = "seedConfig"
    /\ Goto(c, IF \A k \in Keys : item[k] = None THEN "insertItems"
               ELSE IF item[BuiltinKey] = None THEN "insertBuiltin"
               ELSE AfterSeed(req[c]), req[c])
    /\ UNCHANGED configVars

InsertItems(c) ==
    /\ pc[c] = "insertItems" /\ envKeys # {}
    /\ IF \E k \in envKeys : item[k] # None
       THEN Finish(c) /\ UNCHANGED item
       ELSE /\ Goto(c, "findBuiltin", req[c])
            /\ item' = [k \in Keys |-> IF k \in envKeys THEN Default ELSE item[k]]
    /\ UNCHANGED <<envKeys, version, published, torn>>

\* ensureBuiltinItems after an empty .env, and after the rows of a full one.
FindBuiltin(c) ==
    /\ \/ pc[c] = "insertItems" /\ envKeys = {}
       \/ pc[c] = "findBuiltin"
    /\ Goto(c, CASE item[BuiltinKey] = None /\ pc[c] = "insertItems"
                                              -> "insertBuiltin"
                 [] item[BuiltinKey] = None   -> "completeItems"
                 [] pc[c] = "insertItems"     -> AfterSeed(req[c])
                 [] OTHER                     -> "reviseSeed", req[c])
    /\ UNCHANGED configVars

InsertBuiltin(c) ==
    /\ pc[c] \in {"insertBuiltin", "completeItems"}
    /\ IF item[BuiltinKey] # None
       THEN /\ Finish(c)
            /\ torn' = (torn \/ pc[c] = "completeItems")
            /\ UNCHANGED item
       ELSE /\ Goto(c, "reviseSeed", req[c])
            /\ item' = [item EXCEPT ![BuiltinKey] = Default]
            /\ UNCHANGED torn
    /\ UNCHANGED <<envKeys, version, published>>

ReviseSeed(c) ==
    /\ pc[c] = "reviseSeed"
    /\ item' = item
    /\ Revise
    /\ Goto(c, AfterSeed(req[c]), req[c])

\* getCurrentVersion creates a revision when it finds none, which happens when
\* the first start failed before its own.
ReadVersion(c) ==
    /\ pc[c] = "readVersion"
    /\ IF version = 0
       THEN Goto(c, "firstVersion", req[c])
       ELSE Goto(c, "readItems", [req[c] EXCEPT !.version = version])
    /\ UNCHANGED configVars

FirstVersion(c) ==
    /\ pc[c] = "firstVersion"
    /\ item' = item
    /\ Revise
    /\ Goto(c, "readItems", [req[c] EXCEPT !.version = version'])

ReadItems(c) ==
    /\ pc[c] = "readItems"
    /\ Goto(c, "checkVersion", [req[c] EXCEPT !.seen = item])
    /\ UNCHANGED configVars

\* updateConfig up to its first write.  The page submits values for some of
\* the items it may edit, which the built-in one is not (validateItems); a
\* sensitive one that is still masked is not written.
CheckVersion(c) ==
    /\ pc[c] = "checkVersion"
    /\ IF version # req[c].version THEN Finish(c)
       ELSE \E change \in [OtherKeys -> Values \cup {None}] :
              Goto(c, "writeItems", [req[c] EXCEPT !.change = change])
    /\ UNCHANGED configVars

Pending(r) == {k \in OtherKeys : r.change[k] # None}

\* One upsert per submitted item.
WriteItem(c) ==
    /\ pc[c] = "writeItems"
    /\ \E k \in Pending(req[c]) :
          /\ item' = [item EXCEPT ![k] = req[c].change[k]]
          /\ Goto(c, IF Pending(req[c]) = {k} THEN "revise" ELSE "writeItems",
                  [req[c] EXCEPT !.change[k] = None])
    /\ UNCHANGED <<envKeys, version, published, torn>>

NothingToWrite(c) ==
    /\ pc[c] = "writeItems"
    /\ Pending(req[c]) = {}
    /\ Goto(c, "revise", req[c])
    /\ UNCHANGED configVars

WriteMarket_Unversioned(c) ==
    /\ pc[c] = "writeMarket"
    /\ item' = [item EXCEPT ![BuiltinKey] = req[c].value]
    /\ Finish(c)
    /\ UNCHANGED <<envKeys, version, published, torn>>
WriteMarket(c) ==
    /\ pc[c] = "writeMarket"
    /\ item' = [item EXCEPT ![BuiltinKey] = req[c].value]
    /\ Goto(c, "revise", req[c])
    /\ UNCHANGED <<envKeys, version, published, torn>>

CreateRevision(c) ==
    /\ pc[c] = "revise"
    /\ item' = item
    /\ Revise
    /\ Finish(c)

\* Requests that may have changed items and have not created their revision.
Unversioned(c) == pc[c] \in {"findBuiltin", "completeItems", "reviseSeed",
                             "writeItems", "revise"}

\* What a failed call or a death of the process leaves.
Tears(C) == torn' = (torn \/ \E c \in C : Unversioned(c))

ConfigStep(c) ==
    \/ SeedConfig(c) \/ InsertItems(c) \/ FindBuiltin(c) \/ InsertBuiltin(c)
    \/ ReviseSeed(c) \/ ReadVersion(c) \/ FirstVersion(c) \/ ReadItems(c)
    \/ CheckVersion(c) \/ WriteItem(c) \/ NothingToWrite(c) \/ WriteMarket(c)
    \/ CreateRevision(c)

=============================================================================
