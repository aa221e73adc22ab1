----------------------------- MODULE RouteFiles -----------------------------
(***************************************************************************)
(* The command line of p3-rou (cli.rs, lib.rs, decompress.rs) and the      *)
(* loader it writes for: a route is described or written from a table of   *)
(* goods, goes into a file as a flat array behind its length, perhaps      *)
(* through the game, which saves it compressed, and is read back and       *)
(* printed.                                                                *)
(*                                                                         *)
(* A negative length marks a file that is not compressed.  A compressed    *)
(* one is a sequence of single values and of copies of what is already     *)
(* there; the decoder appends as it goes.  Bytes are values of fields, so  *)
(* a stop takes 2 + 3 * (number of wares) places; texts and the console's  *)
(* errors are left out, every error ends the program without a file.       *)
(***************************************************************************)
EXTENDS RouteBuilder

CONSTANTS
    Descriptions,  \* route descriptions: sequences of [town, flag, load, unload, sell, buy]
    GoodsTables,   \* tables of goods: [citizens, goods]
    Citizens,      \* what --citizens may ask for
    Home, Target,  \* the towns of a written route
    None,          \* a field left out
    WORD,          \* the largest i32
    TYPES,         \* kinds of distances in a copy (8)
    ELEMENTS,      \* places of BITMASKS_TABLE_1, the last one a length may use plus one (8)
    BITMASKS       \* BITMASKS_TABLE_2: n -> a value of n bits, all ones

\* The entries of a described stop, each with the list it stands in.
OrderKinds == {"load", "unload", "sell", "buy"}
OrderEntries(s) == UNION {{[kind |-> k, i |-> i, entry |-> s[k][i]] : i \in DOMAIN s[k]} : k \in OrderKinds}

ASSUME FilesAssumption ==
    /\ IsFiniteSet(Wares)
    /\ SCALING \in [Wares -> Nat \ {0}] /\ MAX_AMOUNT \in Nat \ {0}
    /\ None \notin Int
    /\ \A d \in Descriptions :
          /\ d \in Seq(Range(d))
          /\ \A n \in DOMAIN d : \A x \in OrderEntries(d[n]) :
                x.entry.price \in Int /\ x.entry.amount \in Int \cup {None}
    /\ Citizens \subseteq Nat
    /\ \A t \in GoodsTables :
          /\ t.citizens \in Nat
          /\ \A w \in DOMAIN t.goods : t.goods[w].supply \in Int \cup {None}
    /\ {TYPES, ELEMENTS} \subseteq Nat
    /\ BITMASKS[0] = 0
    /\ \A n \in 0..TYPES \cup 0..(ELEMENTS - 1) :
          BITMASKS[n] \in Nat /\ BITMASKS[n + 1] = 2 * BITMASKS[n] + 1

VARIABLES request, file, output, lines

fileVars == <<request, file, output, lines>>

-----------------------------------------------------------------------------
(***************************************************************************)
(* generate: every entry of every stop is checked; one bad entry and there *)
(* is no file.                                                             *)
(***************************************************************************)
scaled_amount(e) == IF e.amount = None THEN MAX_AMOUNT ELSE e.amount * SCALING[e.ware]

\* Known, of the route window's wares, positive and within an i32.
Legal(kind, e) ==
    /\ e.ware \in Wares
    /\ e.amount = None \/ (e.amount > 0 /\ e.amount * SCALING[e.ware] <= WORD)
    /\ kind \in {"sell", "buy"} => e.price > 0

LegalStop(s) ==
    /\ s.flag \in {None, FLAG_R, FLAG_X, FLAG_NONE}
    /\ \A x \in OrderEntries(s) : Legal(x.kind, x.entry)
    /\ \A x, y \in OrderEntries(s) : x.entry.ware = y.entry.ware => x = y

\* set_slot: price and amount of the ware an entry names.
Slot(s, w) ==
    LET x == CHOOSE x \in OrderEntries(s) : x.entry.ware = w
        a == scaled_amount(x.entry)
    IN  IF \A y \in OrderEntries(s) : y.entry.ware # w THEN [price |-> 0, amount |-> 0]
        ELSE CASE x.kind = "load" -> [price |-> 0, amount |-> a]
               [] x.kind = "unload" -> [price |-> 0, amount |-> -a]
               [] x.kind = "sell" -> [price |-> x.entry.price, amount |-> a]
               [] x.kind = "buy" -> [price |-> -x.entry.price, amount |-> a]

DescribedStop(s, n) ==
    stop(s.town, Action(IF s.flag = None THEN FLAG_X ELSE s.flag, n = 1),
         [w \in Wares |-> Slot(s, w).price], [w \in Wares |-> Slot(s, w).amount])

(***************************************************************************)
(* write_route: the supply scaled to the citizens asked for, rounded up so *)
(* that it never undershoots; the table is checked ware by ware.           *)
(***************************************************************************)
LegalTable(t) ==
    /\ t.goods # <<>> /\ t.citizens > 0
    /\ \A w \in DOMAIN t.goods :
          /\ w \in Wares /\ t.goods[w].sell > 0 /\ t.goods[w].buy > 0
          /\ t.goods[w].supply = None \/ t.goods[w].supply > 0

units(supply, citizens, reference) == (supply * citizens + reference - 1) \div reference

\* The raw amount of each ware; None if one does not fit.
load_amount(t, citizens) ==
    LET raw(w) == IF w \notin DOMAIN t.goods THEN 0
                  ELSE IF t.goods[w].supply = None THEN 0
                  ELSE units(t.goods[w].supply, citizens, t.citizens) * SCALING[w]
    IN  IF \E w \in Wares : raw(w) > WORD THEN None ELSE [w \in Wares |-> raw(w)]

WrittenRoute(kind, t, citizens) ==
    LET load == load_amount(t, citizens)
        sell == [w \in Wares |-> IF load[w] # 0 THEN t.goods[w].sell ELSE 0]
        buy == [w \in Wares |-> IF w \in DOMAIN t.goods THEN t.goods[w].buy ELSE 0]
    IN  CASE kind = "5stop" -> five_stop_route(Home, Target, load, sell)
          [] kind = "6stop" -> six_stop_route(Home, Target, load, sell)
          [] kind = "suck" -> suck_route(Home, Target, buy)

-----------------------------------------------------------------------------
\* The wares by their ids, as the arrays of a stop have them.
WareIds == SetToSeq(Wares)
STOP_SIZE == 2 + 3 * Len(WareIds)

serializeStop(s) ==
    <<s.town, s.action>> \o [i \in DOMAIN WareIds |-> s.order[i]]
    \o [i \in DOMAIN WareIds |-> s.price[WareIds[i]]] \o [i \in DOMAIN WareIds |-> s.amount[WareIds[i]]]

serialize(stops) ==
    [len |-> -(Len(stops) * STOP_SIZE), data |-> FlattenSeq([n \in DOMAIN stops |-> serializeStop(stops[n])])]

(***************************************************************************)
(* decompress, a copy: the distance is a type and its bits, the length     *)
(* grows by fields of two, three, ... bits for as long as they are all     *)
(* ones; a field beyond the table is a panic.                              *)
(***************************************************************************)
\* Faulty variant: the kinds of distances overlap in one value.
offsetOverlapping(type, bits) == -((BITMASKS[type + 1] - (IF type = 0 THEN 1 ELSE 2)) + bits) - 1

offset(type, bits) == -((BITMASKS[type + 1] - 1) + bits) - 1

FieldsRead(fields) ==
    LET short == {k \in DOMAIN fields : fields[k] # BITMASKS[k + 1]}
    IN  IF short = {} THEN fields ELSE SubSeq(fields, 1, Min(short))

output_elements(fields) ==
    LET sum[k \in 0..Len(fields)] == IF k = 0 THEN 2 ELSE sum[k - 1] + fields[k]
    IN  sum[Len(fields)]

\* Value by value, also of what the copy itself has just pushed.
Repeat(out, off, count) ==
    LET pushed[i \in 0..count] ==
            IF i = 0 THEN out ELSE LET o == pushed[i - 1] IN Append(o, o[Len(out) + off + i])
    IN  pushed[count]

\* What the game writes for a distance and a length: each has one code. A chain of k full
\* fields, of 2 to k + 1 bits, is worth full(k).
MaxDistance == BITMASKS[TYPES + 1] - 1
DistanceCode(d) ==
    LET t == CHOOSE t \in 0..(TYPES - 1) : BITMASKS[t + 1] <= d /\ d < BITMASKS[t + 2]
    IN  [type |-> t, bits |-> d - BITMASKS[t + 1]]

full(k) == BITMASKS[k + 2] - (k + 3)
LengthCode(count) ==
    LET k == CHOOSE k \in 0..(ELEMENTS - 3) : full(k) <= count - 2 /\ count - 2 < full(k + 1)
    IN  [i \in 1..(k + 1) |-> IF i <= k THEN BITMASKS[i + 1] ELSE count - 2 - full(k)]

\* A copy of `count` values from `d` back is what comes next in the saved route.
Repeats(d, count) ==
    /\ d <= Len(output) /\ Len(output) + count <= Len(file.data)
    /\ \A i \in 1..count : file.data[Len(output) + i] = file.data[Len(output) + i - d]

-----------------------------------------------------------------------------
FilesInit ==
    /\ request = [kind |-> "nothing"]
    /\ file = [len |-> 0, data |-> <<>>]
    /\ output = <<>>
    /\ lines = <<>>

generate ==
    /\ request.kind = "nothing"
    /\ \E d \in Descriptions :
          IF d # <<>> /\ \A n \in DOMAIN d : LegalStop(d[n])
          THEN /\ request' = [kind |-> "described", stops |-> d]
               /\ file' = serialize([n \in DOMAIN d |-> DescribedStop(d[n], n)])
          ELSE request' = [kind |-> "refused"] /\ UNCHANGED file
    /\ UNCHANGED <<output, lines>>

write_route ==
    /\ request.kind = "nothing"
    /\ \E kind \in {"5stop", "6stop", "suck"}, t \in GoodsTables, citizens \in Citizens :
          IF LegalTable(t) /\ load_amount(t, citizens) # None
          THEN /\ request' = [kind |-> "written", table |-> t, citizens |-> citizens, type |-> kind]
               /\ file' = serialize(WrittenRoute(kind, t, citizens))
          ELSE request' = [kind |-> "refused"] /\ UNCHANGED file
    /\ UNCHANGED <<output, lines>>

\* The game loads the file - its loader takes the length's absolute value - and saves the route.
GameSaves ==
    /\ file.len < 0 /\ output = <<>> /\ lines = <<>>
    /\ file' = [file EXCEPT !.len = -file.len]
    /\ UNCHANGED <<request, output, lines>>

decompress ==
    /\ file.data # <<>> /\ lines = <<>> /\ UNCHANGED <<request, file, lines>>
    /\ \/ file.len < 0 /\ output = <<>> /\ output' = SubSeq(file.data, 1, -file.len)
       \/ Len(output) < file.len /\ output' = Append(output, file.data[Len(output) + 1])
       \/ /\ Len(output) < file.len
          /\ \E d \in 1..MaxDistance, count \in 2..Len(file.data) :
                /\ Repeats(d, count) /\ count - 2 < full(ELEMENTS - 2)
                /\ LET c == DistanceCode(d)
                   IN  output' = Repeat(output, offset(c.type, c.bits), output_elements(FieldsRead(LengthCode(count))))

\* dump: the stops cut out of the array again, a line for every ware that is moved.
operation_of(price, amount) ==
    CASE price = 0 /\ amount > 0 -> "load"
      [] price = 0 /\ amount < 0 -> "unload"
      [] price > 0 /\ amount > 0 -> "sell"
      [] price < 0 /\ amount > 0 -> "buy"
      [] OTHER -> "unknown"

magnitude(x) == IF x < 0 THEN -x ELSE x

display_amount(w, amount) == IF magnitude(amount) = MAX_AMOUNT THEN None ELSE magnitude(amount) \div SCALING[w]

listing(s) ==
    LET price(i) == s[2 + Len(WareIds) + i]
        amount(i) == s[2 + 2 * Len(WareIds) + i]
        marker == (s[2] \div FIRST_STOP_MARKER) % 2
    IN  [town |-> s[1], flag |-> s[2] - marker * FIRST_STOP_MARKER, first |-> marker = 1,
         orders |-> {[ware |-> WareIds[i], kind |-> operation_of(price(i), amount(i)),
                      price |-> magnitude(price(i)), amount |-> display_amount(WareIds[i], amount(i))] :
                     i \in {i \in DOMAIN WareIds : amount(i) # 0}}]

dump ==
    /\ output # <<>> /\ Len(output) >= file.len /\ Len(output) % STOP_SIZE = 0 /\ lines = <<>>
    /\ lines' = [n \in 1..(Len(output) \div STOP_SIZE) |->
                    listing(SubSeq(output, (n - 1) * STOP_SIZE + 1, n * STOP_SIZE))]
    /\ UNCHANGED <<request, file, output>>

FilesNext == generate \/ write_route \/ GameSaves \/ decompress \/ dump
FilesSpec == FilesInit /\ [][FilesNext]_fileVars

-----------------------------------------------------------------------------
\* What `a` units of a ware are printed as: an amount that scales to the sentinel is one
\* nobody can tell from `as much as possible`.
Printed(w, a) == IF a * SCALING[w] = MAX_AMOUNT THEN None ELSE a

Meant(kind, e) ==
    [ware |-> e.ware, kind |-> kind, price |-> IF kind \in {"sell", "buy"} THEN e.price ELSE 0,
     amount |-> IF e.amount = None THEN None ELSE Printed(e.ware, e.amount)]

(***************************************************************************)
(* What is printed of a description: stop by stop the town, the flag, the  *)
(* marker on the first stop only, and every order with its amount in the   *)
(* units it was given in, unless it is the sentinel.                       *)
(***************************************************************************)
DescribedIsShown ==
    /\ Len(lines) = Len(request.stops)
    /\ \A n \in DOMAIN lines :
          LET s == request.stops[n] IN
          /\ lines[n].town = s.town
          /\ lines[n].flag = (IF s.flag = None THEN FLAG_X ELSE s.flag)
          /\ lines[n].first <=> n = 1
          /\ lines[n].orders = {Meant(x.kind, x.entry) : x \in OrderEntries(s)}

(***************************************************************************)
(* A written supply route loads enough for the citizens asked for and less *)
(* than one unit more, and what it puts back into the target's office is   *)
(* just what it loads (write_route: "rounding up so the supply never       *)
(* undershoots").  Where that scales to the sentinel, it is as much as     *)
(* possible that is loaded and put back.                                   *)
(***************************************************************************)
NeverUndershoots ==
    \A w \in DOMAIN request.table.goods :
        LET needed == request.table.goods[w].supply * request.citizens
            loads == {o.amount : o \in {o \in lines[1].orders : o.ware = w /\ o.kind = "load"}}
            back == {o.amount : o \in {o \in UNION {lines[n].orders : n \in 3..(Len(lines) - 1)} :
                                         o.ware = w /\ o.kind = "unload" /\ o.amount # None}}
        IN  request.table.goods[w].supply # None /\ needed > 0 =>
                \E a \in 1..(needed + request.table.citizens) :
                    /\ a * request.table.citizens \in needed..(needed + request.table.citizens - 1)
                    /\ loads = {Printed(w, a)} /\ back = {Printed(w, a)} \ {None}

(***************************************************************************)
(* A route file means what was asked of the command line, whether it went  *)
(* through the game and its compression or not (generate, write_route,     *)
(* serialize, decompress, dump).                                           *)
(***************************************************************************)
FilesSayWhatWasMeant ==
    lines # <<>> =>
        /\ request.kind = "described" => DescribedIsShown
        /\ request.kind = "written" /\ request.type # "suck" => NeverUndershoots
=============================================================================
