---------------------------- MODULE MessageTypes ----------------------------
(***************************************************************************)
(* The 16-bit message types of the wire protocol (server/include/          *)
(* protocol.hpp), the handlers the server registers for them at startup    *)
(* (server/src/main.cpp) and the type the router gives to an answer        *)
(* (server/include/service_router.hpp).                                    *)
(***************************************************************************)
EXTENDS Naturals

MaxUInt16 == 65535
UInt16    == 0 .. MaxUInt16

kSqlQuery        == 1
kBuyOrder        == 2
kSellOrder       == 3
kGetPosition     == 4
kGetPriceHistory == 5
kPing            == 6

(* The high bit of the 16, which marks a message of the server. *)
HighBit == 32768

kSqlResult       == HighBit + 1
kOrderAck        == HighBit + 2
kPositionResult  == HighBit + 4
kPriceHistResult == HighBit + 5
kPong            == HighBit + 6
kError           == 65535

ClientRequests  == {kSqlQuery, kBuyOrder, kSellOrder, kGetPosition,
                    kGetPriceHistory, kPing}
ServerResponses == {kSqlResult, kOrderAck, kPositionResult,
                    kPriceHistResult, kPong, kError}

(* The types register_services() installs a handler for. *)
Registered == {kSqlQuery, kBuyOrder, kSellOrder, kGetPosition,
               kGetPriceHistory, kPing}

(* The requests whose handler, build_order_ack, takes an order number. *)
OrderTypes == {kBuyOrder, kSellOrder}

(* req_type | 0x8000u *)
ResponseType(t) == IF t < HighBit THEN t + HighBit ELSE t

============================================================================
