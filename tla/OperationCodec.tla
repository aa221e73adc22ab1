----------------------------- MODULE OperationCodec -----------------------------
(***************************************************************************)
(* How an operation becomes the twenty bytes that go into the game's queue *)
(* or to its executor (src/p3-api/src/operation.rs, operations.rs). In a   *)
(* multiplayer session those bytes are all that the other machines see of  *)
(* it.                                                                     *)
(*                                                                         *)
(* A value is the sequence of its bytes, little end first.                 *)
(***************************************************************************)
EXTENDS Integers, Sequences

CONSTANT Values(_, _)  \* what a field holds, by its name and its bytes

VARIABLES
    operation,  \* the operation last enqueued or executed, NoOperation before the first
    message     \* what was sent for it

codecVars == <<operation, message>>

MessageSize == 20
SignBit == 128

\* A field that is written from byte `at` on and has `bytes` bytes of its own: a wider
\* place is filled up with zeros (`as u32`).
Put(name, at, bytes) == [name |-> name, at |-> at, bytes |-> bytes]

-----------------------------------------------------------------------------
(* kind -> its opcode, and its fields in the order the code writes them.   *)

TradeLayout ==
  [ MoveShipToTown |-> [code |-> 0, fields |-> <<Put("ship", 4, 4), Put("town", 8, 1)>>],
    ShipSellWares |-> [code |-> 1, fields |-> <<Put("amount", 4, 4), Put("ware", 8, 2), Put("ship", 10, 2),
                                                 Put("merchant", 12, 2), Put("town", 14, 2)>>],
    ShipBuyWares |-> [code |-> 2, fields |-> <<Put("amount", 4, 4), Put("ware", 8, 2), Put("ship", 10, 2),
                                                Put("merchant", 12, 2), Put("town", 14, 2)>>],
    ShipMoveWares |-> [code |-> 8, fields |-> <<Put("amount", 4, 4), Put("ship", 8, 2), Put("ware", 10, 2),
                                                 Put("merchant", 12, 2), Put("to_ship", 14, 1)>>],
    ShipMoveWeapons |-> [code |-> 9, fields |-> <<Put("weapon", 4, 4), Put("town", 8, 4), Put("ship", 12, 4),
                                                   Put("amount", 16, 4)>>],
    MoveWaresConvoy |-> [code |-> 27, fields |-> <<Put("amount", 4, 4), Put("convoy", 8, 2), Put("ware", 10, 2),
                                                    Put("merchant", 12, 2), Put("to_ship", 14, 1)>>] ]

CrewLayout ==
  [ RepairShip |-> [code |-> 3, fields |-> <<Put("ship", 4, 4)>>],
    HireSailors |-> [code |-> 4, fields |-> <<Put("ship", 4, 4), Put("count", 8, 4)>>],
    DismissSailors |-> [code |-> 5, fields |-> <<Put("ship", 4, 4), Put("count", 8, 4)>>],
    RepairConvoy |-> [code |-> 29, fields |-> <<Put("convoy", 4, 4)>>] ]

OfficeLayout ==
  [ OfficeAutotradeSettingChange |-> [code |-> 91, fields |-> <<Put("stock", 4, 4), Put("price", 8, 4),
                                                                 Put("office", 12, 4), Put("ware", 16, 2)>>],
    SetCandidature |-> [code |-> 69, fields |-> <<Put("merchant", 4, 4), Put("stands", 8, 1)>>],
    AppointMayor |-> [code |-> 70, fields |-> <<Put("merchant", 4, 4), Put("town", 8, 4)>>] ]

MASKS == <<Put("mask_hi", 8, 4), Put("mask_lo", 12, 4)>>
LateMasks == <<Put("mask_hi", 12, 4), Put("mask_lo", 16, 4)>>

\* Moving is the one order that needs two more bytes before its masks.
MoveMasks == LateMasks

BattleLayout ==
  [ BattleSetTarget |-> [code |-> 147, fields |-> <<Put("slot", 4, 1), Put("group", 5, 1), Put("target", 6, 2)>> \o MASKS],
    BattleMoveTo |-> [code |-> 149, fields |-> <<Put("slot", 4, 1), Put("group", 5, 1), Put("x", 6, 2), Put("y", 8, 2)>>
                                                \o MoveMasks],
    BattleSetOrderMode |-> [code |-> 151, fields |-> <<Put("slot", 4, 1), Put("mode", 5, 1), Put("modifier", 6, 1),
                                                        Put("group", 7, 1)>> \o MASKS],
    BattleSetSail |-> [code |-> 152, fields |-> <<Put("slot", 4, 1), Put("value", 5, 1), Put("group", 6, 1)>> \o MASKS],
    BattleDisengage |-> [code |-> 154, fields |-> <<Put("slot", 4, 1), Put("group", 5, 1)>> \o MASKS],
    BattleFlee |-> [code |-> 155, fields |-> <<Put("slot", 4, 1), Put("flee", 5, 1), Put("group", 6, 1)>> \o MASKS] ]

Administrator == [code |-> 94, fields |-> <<Put("merchant", 4, 2), Put("town", 8, 2)>>]
Name == Put("name", 4, 12)

RouteLayout ==
  [ HireAdministrator |-> Administrator,
    DismissAdministrator |-> Administrator,
    OfficeAutotradeLockChange |-> [code |-> 102, fields |-> <<Put("ware", 4, 2), Put("merchant", 8, 2),
                                                               Put("town", 12, 2), Put("lock", 16, 1)>>],
    SetTradeRouteActive |-> [code |-> 104, fields |-> <<Put("ship", 4, 4), Put("active", 8, 1)>>],
    RemoveTradeRouteStop |-> [code |-> 106, fields |-> <<Put("stop", 4, 4), Put("ship", 16, 4)>>],
    InsertTradeRouteStop |-> [code |-> 106, fields |-> <<Put("stop", 4, 4), Put("town", 12, 1), Put("ship", 16, 4)>>],
    RenameShip |-> [code |-> 45, fields |-> <<Name, Put("ship", 16, 4)>>],
    AppendShipName |-> [code |-> 46, fields |-> <<Name, Put("ship", 16, 4)>>],
    SaveGame |-> [code |-> 194, fields |-> <<Put("player", 4, 4), Put("name", 8, 12)>>],
    SetGameSpeed |-> [code |-> 200, fields |-> <<Put("speed1", 4, 4), Put("speed2", 8, 4), Put("level", 12, 4),
                                                  Put("field_10", 16, 4)>>] ]

Layout ==
    [kind \in DOMAIN TradeLayout \cup DOMAIN CrewLayout \cup DOMAIN OfficeLayout
              \cup DOMAIN BattleLayout \cup DOMAIN RouteLayout |->
        CASE kind \in DOMAIN TradeLayout -> TradeLayout[kind]
          [] kind \in DOMAIN CrewLayout -> CrewLayout[kind]
          [] kind \in DOMAIN OfficeLayout -> OfficeLayout[kind]
          [] kind \in DOMAIN BattleLayout -> BattleLayout[kind]
          [] OTHER -> RouteLayout[kind]]

\* A town is below 0x80000000, and as a byte not 0xff: both say something else of an order.
ASSUME CodecAssumption ==
    /\ \A kind \in DOMAIN Layout : \A n \in DOMAIN Layout[kind].fields :
          LET f == Layout[kind].fields[n] IN Values(f.name, f.bytes) \subseteq [1..f.bytes -> 0..255]
    /\ \A v \in Values("town", 4) : v[4] < SignBit
    /\ \A v \in Values("town", 1) : v[1] # 255

-----------------------------------------------------------------------------
\* What has a place in no field of its own: two kinds of one opcode are told apart by it, a
\* direction rides in the sign of a town, a waiver is a token.
Extra(kind, flag, b) ==
    CASE kind = "DismissAdministrator" /\ b = 12 -> 1
      [] kind = "InsertTradeRouteStop" /\ b = 8 -> 1
      [] kind = "RemoveTradeRouteStop" /\ b = 12 -> 255
      [] kind = "ShipMoveWeapons" /\ ~flag /\ b = 11 -> SignBit
      [] kind = "AppointMayor" /\ flag /\ b \in 16..19 -> <<254, 175, 222, 186>>[b - 15]
      [] OTHER -> 0

Flags(kind) == IF kind \in {"ShipMoveWeapons", "AppointMayor"} THEN BOOLEAN ELSE {FALSE}

FieldValues(fields) ==
    {v \in [DOMAIN fields -> UNION {Values(fields[n].name, fields[n].bytes) : n \in DOMAIN fields}] :
        \A n \in DOMAIN fields : v[n] \in Values(fields[n].name, fields[n].bytes)}

\* An operation is its kind, its fields' values by their places in the layout, and its flag.
Operations ==
    UNION {{[kind |-> kind, values |-> v, flag |-> marked] :
               v \in FieldValues(Layout[kind].fields), marked \in Flags(kind)} : kind \in DOMAIN Layout}

NoOperation == [kind |-> "none"]

\* The byte at b: what the last write that covers it leaves, on zeros; the sign bit is or-ed in.
to_raw(op) ==
    LET fields == Layout[op.kind].fields
        covering(b) == {n \in DOMAIN fields : b \in fields[n].at .. fields[n].at + fields[n].bytes - 1}
        last(b) == CHOOSE n \in covering(b) : \A l \in covering(b) : l <= n
        written(b) == IF covering(b) = {} THEN 0 ELSE op.values[last(b)][b - fields[last(b)].at + 1]
    IN  [b \in 0..MessageSize - 1 |->
            IF b = 0 THEN Layout[op.kind].code ELSE written(b) + Extra(op.kind, op.flag, b)]

Messages == [op \in Operations |-> to_raw(op)]

enqueue_operation(op) ==
    /\ operation' = op
    /\ message' = Messages[op]

CodecInit ==
    /\ operation = NoOperation
    /\ message = <<>>

CodecNext == \E op \in Operations : enqueue_operation(op)

CodecSpec == CodecInit /\ [][CodecNext]_codecVars

-----------------------------------------------------------------------------
\* "The direction rides in the sign bit of the town field", "opcode 0x6a with town 0xff",
\* "mode 0 ... mode 1": whatever is left out, shared or folded together, no two operations
\* are sent as the same message - each handler, here and on the other machines of a session,
\* does what the caller asked for and nothing else.
SameBytesSameOrder == [][message' = message => operation' = operation]_codecVars
=============================================================================
