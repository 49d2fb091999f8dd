-------------------------- MODULE DeveloperClient ---------------------------
(* The fleet manager's way to the developers of drones: DeveloperClient      *)
(* (systems/operator/src/operator_clients), called by the handlers of        *)
(* get_developer_catalogs and purchase_uas in fleet_manager.py, of which the *)
(* bus runs several at a time.  One developer with one model.  The catalogs  *)
(* in the cache are objects: what a load puts there replaces the cache and   *)
(* not the object that another handler still holds.                          *)
EXTENDS Integers, FiniteSets

CONSTANTS
    Buyers,         \* handlers that may run at a time
    Stock,          \* available_quantity in the file
    Quantities,     \* what purchases ask for
    MaxLoads        \* bound on the catalogs parsed

VARIABLES
    source,         \* use_yaml_catalog: "yaml", or the "bus"
    file,           \* developers_catalog.yaml: absent, empty or full
    cache,          \* catalogs_cache: the number of its catalog, 0 when it is empty
    loads,          \* catalogs parsed so far
    stock,          \* available_quantity of each of them
    sold,           \* units sold from each of them (history)
    step,           \* of each handler: idle, look, create, fill, read, find, sell,
                    \* add, draw, check or store
    want,           \* what it was asked for, 0 when it only shows the catalogs
    held,           \* the catalog it found in the cache
    left,           \* units it has yet to add to the fleet
    drawn,          \* the id it has drawn for one of them
    paid,           \* units answered with success
    delivered,      \* ids of those in the fleet, counted from the first free one
    clashes         \* history: how often an id was drawn that another had drawn

catalogVars == <<source, file, cache, loads>>
fleetVars == <<left, drawn, delivered, clashes>>
clientVars == <<catalogVars, stock, sold, step, want, held, paid, fleetVars>>

\* The DeveloperCatalog objects: one for each load that succeeds.
Catalogs == 1 .. MaxLoads

Init ==
    /\ source \in {"yaml", "bus"} /\ file \in {"absent", "full"}
    /\ cache = 0 /\ loads = 0
    /\ stock = [c \in Catalogs |-> Stock] /\ sold = [c \in Catalogs |-> 0]
    /\ step = [b \in Buyers |-> "idle"]
    /\ want = [b \in Buyers |-> 0] /\ held = [b \in Buyers |-> 0]
    /\ left = [b \in Buyers |-> 0] /\ drawn = [b \in Buyers |-> 0]
    /\ paid = 0 /\ delivered = {} /\ clashes = 0

Go(b, to) == step' = [step EXCEPT ![b] = to]
-----------------------------------------------------------------------------
(* The catalogs.                                                             *)

\* Where a load goes back to: purchase_uas looks into the cache again.
Loaded(b) == Go(b, IF want[b] = 0 THEN "idle" ELSE "find")

GetAllCatalogs(b) ==
    /\ step[b] = "idle" /\ loads < MaxLoads
    /\ want' = [want EXCEPT ![b] = 0]
    /\ Go(b, "look")
    /\ UNCHANGED <<catalogVars, stock, sold, held, paid, fleetVars>>

\* request() of the bus is no coroutine: whatever the developer answers, the
\* await on it raises, the catalog is None, and the cache is left empty.
RequestCatalog(b) ==
    /\ step[b] = "look" /\ source = "bus"
    /\ cache' = 0
    /\ Loaded(b)
    /\ UNCHANGED <<source, file, loads, stock, sold, want, held, paid, fleetVars>>

LookForFile(b) ==
    /\ step[b] = "look" /\ source = "yaml"
    /\ Go(b, IF file = "absent" THEN "create" ELSE "read")
    /\ UNCHANGED <<catalogVars, stock, sold, want, held, paid, fleetVars>>

\* open(..., "w") empties the file, and the dump is in it when it is closed.
CreateExampleYaml(b) ==
    /\ \/ step[b] = "create" /\ file' = "empty" /\ Go(b, "fill")
       \/ step[b] = "fill" /\ file' = "full" /\ Go(b, "read")
    /\ UNCHANGED <<source, cache, loads, stock, sold, want, held, paid, fleetVars>>

\* A new object for each load; its stock is the file's.
ParseCatalog ==
    /\ loads < MaxLoads
    /\ loads' = loads + 1 /\ cache' = loads'

\* A file found empty raises on data.get, which leaves the cache as it was.
LoadCatalogsFromYaml(b) ==
    /\ step[b] = "read"
    /\ IF file = "full" THEN ParseCatalog ELSE UNCHANGED <<cache, loads>>
    /\ Loaded(b)
    /\ UNCHANGED <<source, file, stock, sold, want, held, paid, fleetVars>>
-----------------------------------------------------------------------------
(* purchase_uas.                                                             *)

Purchase(b) ==
    /\ step[b] = "idle"
    /\ \E q \in Quantities : want' = [want EXCEPT ![b] = q]
    /\ IF cache = 0
         THEN loads < MaxLoads /\ Go(b, "look")
         ELSE Go(b, "find")
    /\ UNCHANGED <<catalogVars, stock, sold, held, paid, fleetVars>>

Find(b) ==
    /\ step[b] = "find"
    /\ held' = [held EXCEPT ![b] = cache]
    /\ Go(b, IF cache = 0 THEN "idle" ELSE "sell")
    /\ UNCHANGED <<catalogVars, stock, sold, want, paid, fleetVars>>

\* The stock is compared and lowered without a call between the two, so no
\* other thread is let in.
SellFrom(b, c) ==
    /\ step[b] = "sell"
    /\ IF stock[held[b]] < want[b]
         THEN Go(b, "idle") /\ UNCHANGED <<stock, sold, paid>>
         ELSE /\ stock' = [stock EXCEPT ![c] = @ - want[b]]
              /\ sold' = [sold EXCEPT ![held[b]] = @ + want[b]]
              /\ paid' = paid + want[b]
              /\ Go(b, "add")
    /\ UNCHANGED <<catalogVars, want, held, fleetVars>>

\* Without the objects: the model is looked up again to lower its stock.
SellFromCache(b) == SellFrom(b, cache)

Sell(b) == SellFrom(b, held[b])

\* _add_purchased_uas_to_fleet takes the model from the cache of then.
AddToFleet(b) ==
    /\ step[b] = "add"
    /\ left' = [left EXCEPT ![b] = want[b]]
    /\ Go(b, IF cache = 0 THEN "idle" ELSE "draw")
    /\ UNCHANGED <<catalogVars, stock, sold, want, held, paid, drawn, delivered, clashes>>

\* Ids that handlers have drawn and not used yet.
Drawn == {drawn[b] : b \in {c \in Buyers : step[c] \in {"check", "store"}}}

\* _next_uas_id: the smallest id that is not in the fleet.
NextUasId(b) ==
    /\ step[b] = "draw" /\ left[b] # 0
    /\ \E id \in 1 .. Cardinality(delivered) + 1 :
         /\ id \notin delivered /\ \A lower \in 1 .. id - 1 : lower \in delivered
         /\ drawn' = [drawn EXCEPT ![b] = id]
         /\ clashes' = IF id \in Drawn THEN clashes + 1 ELSE clashes
    /\ left' = [left EXCEPT ![b] = @ - 1]
    /\ Go(b, "check")
    /\ UNCHANGED <<catalogVars, stock, sold, want, held, paid, delivered>>

\* add_uas refuses an id that is in the fleet by now; the unit is passed over.
CheckId(b) ==
    /\ step[b] = "check"
    /\ Go(b, IF drawn[b] \in delivered THEN "draw" ELSE "store")
    /\ UNCHANGED <<catalogVars, stock, sold, want, held, paid, fleetVars>>

\* ... and stores the others, without looking again.
StoreUnit(b) ==
    /\ step[b] = "store"
    /\ delivered' = delivered \cup {drawn[b]}
    /\ Go(b, "draw")
    /\ UNCHANGED <<catalogVars, stock, sold, want, held, paid, left, drawn, clashes>>

EndPurchase(b) ==
    /\ step[b] = "draw" /\ left[b] = 0
    /\ Go(b, "idle")
    /\ UNCHANGED <<catalogVars, stock, sold, want, held, paid, fleetVars>>

Next ==
    \E b \in Buyers :
        \/ GetAllCatalogs(b) \/ RequestCatalog(b)
        \/ LookForFile(b) \/ CreateExampleYaml(b) \/ LoadCatalogsFromYaml(b)
        \/ Purchase(b) \/ Find(b) \/ Sell(b)
        \/ AddToFleet(b) \/ NextUasId(b) \/ CheckId(b) \/ StoreUnit(b) \/ EndPurchase(b)

Spec == Init /\ [][Next]_clientVars
-----------------------------------------------------------------------------
(* Properties.                                                               *)

TypeOK ==
    /\ source \in {"yaml", "bus"} /\ file \in {"absent", "empty", "full"}
    /\ cache \in 0 .. loads /\ loads \in 0 .. MaxLoads
    /\ stock \in [Catalogs -> Int] /\ sold \in [Catalogs -> Nat]
    /\ step \in [Buyers ->
        {"idle", "look", "create", "fill", "read", "find", "sell", "add", "draw", "check", "store"}]
    /\ want \in [Buyers -> Quantities \cup {0}]
    /\ held \in [Buyers -> 0 .. MaxLoads]
    /\ left \in [Buyers -> Quantities \cup Nat] /\ drawn \in [Buyers -> Nat]
    /\ paid \in Nat /\ delivered \subseteq Nat /\ clashes \in Nat

\* However purchases and reloads of the catalogs overlap, no catalog object
\* sells more units than the developer's file has (the check and the
\* subtraction of purchase_uas are about the same object).  And once the
\* handlers are done, the paid units are in the fleet, but for one for every
\* time an id was drawn that another purchase had drawn and not stored yet: a
\* reload between the sale and _add_purchased_uas_to_fleet loses none (it
\* leaves the model in the cache), and neither does any other interleaving.
StockHonoured ==
    /\ \A c \in Catalogs : sold[c] <= Stock
    /\ (\A b \in Buyers : step[b] = "idle") => paid = Cardinality(delivered) + clashes
=============================================================================
