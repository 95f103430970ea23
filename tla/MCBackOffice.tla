----------------------------- MODULE MCBackOffice -----------------------------
(* The components beside the order and shipping flow.  They share no state and *)
(* do not call each other, so that interleaving their steps would add nothing  *)
(* but states: one of them, the focus, is picked at the start and runs.        *)
EXTENDS AssetBinaries, AssetFolders, CouponUsage, ShopifyFulfilments,
        ShopifyWebhooks, MembershipStamps, ProductCatalogue,
        StorefrontNavigation, ServerProcess, FalabellaListing, TLC

CONSTANTS t1, t2, o1, m1, m2, s1, d1, u1

\* Two marks of one order; one shop with an order and an uninstall delivery.
MCGoods == [m \in {m1, m2} |-> o1]
\* A release of two replicas: one was built with one migration less.
MCLatest == [p \in Replicas |-> IF p = "old" THEN 1 ELSE 2]
MCHookShop == [h \in {d1, u1} |-> s1]

\* Datasheets of up to four attributes, each under a name or an alias, for the
\* product, a variant or a scope that is none; variants with two colors, or one SKU
\* given twice; a gallery with an image of one color or of two.
Attribute(scope, key) == [scope |-> scope, key |-> key]
Colors(sku, color) == [sku |-> sku, color |-> color]
Image(colors, position) == [colors |-> colors, position |-> position]
MCAttributes ==
    {Attribute("base", "Color"), Attribute("base", "color"), Attribute("base", "size"),
     Attribute("base", "price"), Attribute("base", "Stock"), Attribute("v1", "color"),
     Attribute("v1", "price"), Attribute("v2", "Talla"), Attribute("other", "color")}
MCSheets ==
    {Sheet(attributes, variants, images) :
       attributes \in {a \in SUBSET MCAttributes : Cardinality(a) <= 4},
       variants \in {<<>>, <<Colors("v1", "red"), Colors("v2", "blue")>>,
                     <<Colors("v1", "none"), Colors("v1", "red")>>},
       images \in {<<Image({"red"}, 1), Image({}, 0)>>, <<Image({}, 0), Image({"red", "blue"}, 0)>>}}

\* Requests are interchangeable.
BackOfficeSymmetry == Permutations({t1, t2})

VARIABLE focus

backOfficeVars == <<assetVars, folderVars, couponVars, fulfilmentVars,
                    webhookVars, stampVars, catalogVars,
                    navigationVars, serverVars, listingVars, focus>>

Init ==
    /\ focus \in {"assets", "folders", "coupons", "fulfilments", "webhooks", "stamps",
                 "products", "navigation", "server", "listing"}
    /\ AssetInit /\ FolderInit /\ CouponInit
    /\ FulfilmentInit /\ WebhookInit /\ StampInit
    /\ CatalogInit /\ NavigationInit /\ ServerInit
    /\ IF focus = "listing" THEN ListingInit
       ELSE /\ sheet = Sheet({}, <<>>, <<>>) /\ center = <<>>
            /\ list = NoList /\ failures = 0

InFocus(component) ==
    /\ focus = component
    /\ UNCHANGED focus
    /\ component # "assets" => UNCHANGED assetVars
    /\ component # "folders" => UNCHANGED folderVars
    /\ component # "coupons" => UNCHANGED couponVars
    /\ component # "fulfilments" => UNCHANGED fulfilmentVars
    /\ component # "webhooks" => UNCHANGED webhookVars
    /\ component # "stamps" => UNCHANGED stampVars
    /\ component # "products" => UNCHANGED catalogVars
    /\ component # "navigation" => UNCHANGED navigationVars
    /\ component # "server" => UNCHANGED serverVars
    /\ component # "listing" => UNCHANGED listingVars

Next ==
    \/ InFocus("assets") /\ AssetNext
    \/ InFocus("folders") /\ FolderNext
    \/ InFocus("coupons") /\ CouponNext
    \/ InFocus("fulfilments") /\ FulfilmentNext
    \/ InFocus("webhooks") /\ WebhookNext
    \/ InFocus("stamps") /\ StampNext
    \/ InFocus("products") /\ CatalogNext
    \/ InFocus("navigation") /\ NavigationNext
    \/ InFocus("server") /\ ServerNext
    \/ InFocus("listing") /\ ListingNext

Spec == Init /\ [][Next]_backOfficeVars

\* What is kept of products: the aggregate and its tags, the category tree and the
\* storefront navigation, and what is listed of them in Seller Center.
ProductsSafety == CatalogSafety /\ NavigationSafety /\ ListingSafety
===============================================================================
