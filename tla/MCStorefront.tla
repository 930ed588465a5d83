---------------------------- MODULE MCStorefront ----------------------------
(* Instances for TLC of what one customer does in the shop, apart from the    *)
(* orders themselves: the parts do not share state, one of them at a time.    *)
EXTENDS Checkout, Cart, AccountDeletion, AbandonedViews, PushCampaigns, TLC

CONSTANTS FirstTick, FirstProduct

VARIABLE part

\* The reminders are checked twice: two ticks with the views of one product, and
\* one tick with those of two.
Parts == {"checkout", "cart", "deletion", "ticks", "products", "campaign"}

storefrontVars == <<part, checkoutVars, cartVars, deletionVars, viewsVars,
                    campaignVars>>

StorefrontInit ==
    /\ part \in Parts
    /\ CheckoutInit /\ CartInit /\ DeletionInit /\ ViewsInit /\ CampaignInit

OneProduct == \A v \in Views : v[2] # FirstProduct => ~view'[v].open
OneTick == \A t \in Ticks \ {FirstTick} : tick'[t] = NoTick

StorefrontNext ==
    /\ \/ /\ part = "checkout" /\ CheckoutNext
          /\ UNCHANGED <<cartVars, deletionVars, viewsVars, campaignVars>>
       \/ /\ part = "cart" /\ CartNext
          /\ UNCHANGED <<checkoutVars, deletionVars, viewsVars, campaignVars>>
       \/ /\ part = "deletion" /\ DeletionNext
          /\ UNCHANGED <<checkoutVars, cartVars, viewsVars, campaignVars>>
       \/ /\ part = "ticks" /\ ViewsNext /\ OneProduct
          /\ UNCHANGED <<checkoutVars, cartVars, deletionVars, campaignVars>>
       \/ /\ part = "products" /\ ViewsNext /\ OneTick
          /\ UNCHANGED <<checkoutVars, cartVars, deletionVars, campaignVars>>
       \/ /\ part = "campaign" /\ CampaignNext
          /\ UNCHANGED <<checkoutVars, cartVars, deletionVars, viewsVars>>
    /\ UNCHANGED part

StorefrontSpec == StorefrontInit /\ [][StorefrontNext]_storefrontVars

\* The parts never meet, so their symmetric sets share model values and TLC has
\* fewer permutations to try.
Symmetry == Permutations(CartIds) \cup Permutations(Requests) \cup Permutations(Bodies)
=============================================================================
