---------------------------- MODULE OrderStatus ----------------------------
(***************************************************************************)
(* The order status graph of apps/api/src/common/order-status.ts: the      *)
(* single allowlist every status change of an order goes through.          *)
(***************************************************************************)

\* Values of the OrderStatus column.  "separating" and "shipped" are legacy:
\* no transition of the current code leads from "paid" to them.
OrderStatuses ==
    { "draft", "awaiting_payment", "paid", "organizing", "packing",
      "ready_for_pickup", "in_transit", "delivered", "cancelled", "refunded",
      "separating", "shipped" }

ORDER_TRANSITIONS ==
    [ s \in OrderStatuses |->
        CASE s = "draft"            -> {"awaiting_payment", "cancelled"}
          [] s = "awaiting_payment" -> {"paid", "cancelled"}
          [] s = "paid"             -> {"organizing", "refunded"}
          [] s = "organizing"       -> {"packing", "refunded"}
          [] s = "packing"          -> {"ready_for_pickup", "refunded"}
          [] s = "ready_for_pickup" -> {"in_transit", "refunded"}
          [] s = "in_transit"       -> {"delivered", "refunded"}
          [] s = "separating"       -> {"packing", "in_transit", "shipped", "refunded"}
          [] s = "shipped"          -> {"delivered", "refunded"}
          [] OTHER                  -> {} ]

canTransition(from, to) == to \in ORDER_TRANSITIONS[from]

\* What the admin PATCH may ask for (DTO IsIn).
ADMIN_FULFILLMENT_TARGETS ==
    { "organizing", "packing", "ready_for_pickup", "in_transit", "delivered",
      "separating", "shipped" }

POST_PAID_STATUSES ==
    { "paid", "organizing", "packing", "ready_for_pickup", "in_transit",
      "delivered", "separating", "shipped" }

REFUND_RESTOCK_STATUSES == { "paid", "organizing", "packing", "separating" }

isRefundAllowed(status) == canTransition(status, "refunded")

RestockAlways(status) == TRUE       \* mutant: goods already shipped come back too

shouldRestockOnRefund(status) == status \in REFUND_RESTOCK_STATUSES
============================================================================
