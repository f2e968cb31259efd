------------------------------ MODULE Screens ------------------------------
(***************************************************************************)
(* Every screen that lets somebody act on a record, by the kind of the     *)
(* record: what is offered, let through, sent and taken, who else moves    *)
(* the record, and how it comes to the page.                               *)
(***************************************************************************)
EXTENDS OrderScreens, ReturnScreens, FinanceScreens, PartnerScreens, DeliveryScreens, CatalogScreens,
        BillingScreens, TeamScreens, AdminScreens

AllKinds ==
    {"order", "order return", "cart", "on behalf", "return", "order dispute", "payment dispute",
     "payment form", "payment", "adjustment form", "adjustment", "new partner", "partner", "terms",
     "board", "run", "delivery", "stock", "receipt", "product", "unit", "category", "price list",
     "price", "import", "subscription", "billing", "plan", "plan request", "verification", "review",
     "user", "organization", "event", "issue", "member", "invitation", "inbox", "seat", "profile",
     "ticket form", "ticket"}

StatusesOf(k) ==
    CASE k = "order"          -> statuses
      [] k = "order return"   -> RETURNABLE_STATUSES \cup returningStatuses
      [] k = "cart"           -> {"0", "1", "2"}
      [] k = "return"         -> openReturnStatuses
      [] k \in {"order dispute", "payment dispute"} -> openDisputeStatuses
      [] k = "payment"        -> {"PENDING"}
      [] k = "adjustment"     -> {"PENDING_APPROVAL"}
      [] k = "partner"        -> living \cup {"TERMED"}
      [] k = "terms"          -> {"ACTIVE"}
      [] k \in {"board", "new partner"} -> {"NONE"}
      [] k = "run"            -> drafts \cup {"STARTED", "SETTLED"}
      [] k = "delivery"       -> openStatuses
      [] k = "stock"          -> {"FREE", "HELD"}
      [] k = "product"        -> {"NONE", "ACTIVE", "INACTIVE"}
      [] k = "unit"           -> {"NONE", "BASE", "ACTIVE", "INACTIVE"}
      [] k = "category"       -> {"NONE", "INACTIVE", "CLOSED"} \cup activeCategories
      [] k = "price list"     -> {"NONE", "DEFAULT", "ACTIVE", "INACTIVE"}
      [] k = "price"          -> {"CURRENT", "CLOSED", "RETIRED"} \cup withFuture
      [] k = "import"         -> {"NONE", "UPLOADED", "VALIDATED", "FAULTY", "CONFIRMED"}
      [] k = "subscription"   -> {"RENEWS", "ENDS"}
      [] k = "billing"        -> {"TRIAL", "ACTIVE", "FULL_BLOCK"}
      [] k = "plan"           -> {"ACTIVE", "INACTIVE"}
      [] k = "plan request"   -> {"PENDING"}
      [] k = "verification"   -> {"NOT_SUBMITTED", "PENDING", "REJECTED"}
      [] k = "review"         -> {"SUBMITTED", "UNDER_REVIEW"}
      [] k = "user"           -> {"ACTIVE", "BLOCKED", "SUPERADMIN"}
      [] k = "organization"   -> {"ACTIVE", "SUSPENDED", "BLOCKED"}
      [] k = "event"          -> {"FAILED", "PENDING"}
      [] k = "issue"          -> {"OPEN"}
      [] k = "member"         -> {"ACTIVE", "SUSPENDED"}
      [] k = "invitation"     -> {"NONE", "PENDING"}
      [] k = "inbox"          -> {"PENDING"}
      [] k = "seat"           -> {"ACTIVE"}
      [] k = "profile"        -> {"OPEN", "LOCKED"}
      [] k = "ticket"         -> {"OPEN", "IN_PROGRESS", "RESOLVED"}
      [] OTHER                -> {"-"}

(***************************************************************************)
(* Whom a record names: the one who made the order, recorded the payment,  *)
(* started the partnership, reviews the request, or is the member.  Nobody *)
(* is no viewer.                                                           *)
(***************************************************************************)
Person(side, role) ==
    [side |-> side, role |-> role, sub |-> "ACTIVE", plan |-> "room", verified |-> TRUE]
Nobody == Person("PLATFORM", "NOBODY")

By(k) ==
    CASE k = "order"   -> {Person("STORE", "SELLER")}
      [] k = "payment" -> {Person("COMPANY", "OWNER"), Person("COMPANY", "COURIER"), Person("STORE", "OWNER")}
      [] k = "partner" -> {Person("COMPANY", "OWNER"), Person("STORE", "OWNER")}
      [] k = "review"  -> {Person("PLATFORM", "SUPERADMIN"), Person("PLATFORM", "COLLEAGUE")}
      [] k = "member"  -> {Person("COMPANY", "COURIER"), Person("COMPANY", "OWNER"), Person("STORE", "SELLER")}
      [] OTHER         -> {Nobody}

Readable(k, u, r) == k = "order" => OrderVisible(u, r)

Offers(k, u, r) ==
    CASE k = "order"           -> OrderOffers(u, r)
      [] k = "order return"    -> OrderReturnOffers(u, r)
      [] k = "cart"            -> CartOffers(u, r)
      [] k = "on behalf"       -> OnBehalfOffers(u)
      [] k = "return"          -> ReturnOffers(u, r)
      [] k \in {"order dispute", "payment dispute"} -> DisputeOffers(u, r)
      [] k = "payment form"    -> PaymentFormOffers(u)
      [] k = "payment"         -> PaymentOffers(u, r)
      [] k = "adjustment form" -> AdjustmentFormOffers(u)
      [] k = "adjustment"      -> AdjustmentOffers(u, r)
      [] k = "new partner"     -> NewPartnerOffers(u)
      [] k = "partner"         -> PartnerOffers(u, r)
      [] k = "terms"           -> TermsOffers(u, r)
      [] k = "board"           -> BoardOffers(u, r)
      [] k = "run"             -> RunOffers(u, r)
      [] k = "delivery"        -> DeliveryOffers(u, r)
      [] k = "stock"           -> StockOffers(u, r)
      [] k = "receipt"         -> ReceiptOffers(u, r)
      [] k = "product"         -> ProductOffers(u, r)
      [] k = "unit"            -> UnitOffers(u, r)
      [] k = "category"        -> CategoryOffers(u, r)
      [] k = "price list"      -> ListOffers(u, r)
      [] k = "price"           -> PriceOffers(u, r)
      [] k = "import"          -> ImportOffers(u, r)
      [] k = "subscription"    -> SubscriptionOffers(u, r)
      [] k = "billing"         -> BillingOffers(u, r)
      [] k = "plan"            -> PlanOffers(u, r)
      [] k = "plan request"    -> RequestOffers(u, r)
      [] k = "verification"    -> VerificationOffers(u, r)
      [] k = "review"          -> ReviewOffers(u, r)
      [] k = "user"            -> UserOffers(u, r)
      [] k = "organization"    -> OrganizationOffers(u, r)
      [] k = "event"           -> OutboxOffers(u, r)
      [] k = "issue"           -> IssueOffers(u, r)
      [] k = "member"          -> MemberOffers(u, r)
      [] k = "invitation"      -> InvitationOffers(u, r)
      [] k = "inbox"           -> InboxOffers(u, r)
      [] k = "seat"            -> LeaveOffers(u, r)
      [] k = "profile"         -> ProfileOffers(u, r)
      [] k = "ticket form"     -> TicketFormOffers
      [] k = "ticket"          -> TicketOffers(u)

\* What the form of an offered act lets through, and what it may meet there that the record does not show.
Inputs(k, u, r, act) ==
    CASE k = "order"           -> OrderInputs(u, act)
      [] k = "cart"            -> CartInputs(r, act)
      [] k = "return"          -> ReturnInputs(act)
      [] k = "order dispute"   -> DisputeInputs("ORDER", act)
      [] k = "payment dispute" -> DisputeInputs("PAYMENT", act)
      [] k = "payment form"    -> PaymentFormInputs(u)
      [] k \in {"adjustment form", "adjustment"} -> AdjustmentInputs(act)
      [] k \in {"new partner", "partner", "terms"} -> PartnerInputs(act)
      [] k = "board"           -> OrderedStops
      [] k = "run"             -> RunInputs(act)
      [] k = "stock"           -> StockInputs(act)
      [] k = "product"         -> ProductInputs(act)
      [] k = "category"        -> CategoryInputs(r, act)
      [] k = "price"           -> PriceInputs(act)
      [] k = "subscription"    -> SubscriptionInputs(r, act)
      [] k = "plan"            -> {"ACTIVE", "INACTIVE"}
      [] k = "plan request"    -> {"DONE", "DISMISSED"}
      [] k = "profile"         -> ProfileInputs(u, r, act)
      [] k = "ticket"          -> TicketStatuses
      [] OTHER                 -> {"-"}

Sends(k, act) ==
    CASE k = "order"           -> OrderSends(act)
      [] k = "order return"    -> IF act = "return" THEN ReturnDialog ELSE DisputeDialog
      [] k = "cart"            -> CartSends(act)
      [] k = "on behalf"       -> OnBehalfSends
      [] k = "return"          -> ReturnSends(act)
      [] k \in {"order dispute", "payment dispute"} -> DisputeSends(act)
      [] k = "payment form"    -> PaymentFormSends
      [] k = "payment"         -> PaymentSends
      [] k = "adjustment form" -> AdjustmentFormSends
      [] k = "adjustment"      -> AdjustmentSends
      [] k = "new partner"     -> IF act = "invite" THEN InviteForm ELSE RequestForm
      [] k = "partner"         -> PartnerSends(act)
      [] k = "terms"           -> TermsForm
      [] k = "board"           -> Blind(TRUE, "refetch")
      [] k = "run"             -> RunSends(act)
      [] k = "delivery"        -> DeliverySends(act)
      [] k = "stock"           -> StockSends(act)
      [] k = "receipt"         -> ReceiptSends
      [] k = "product"         -> ProductForm(act)
      [] k = "unit"            -> UnitPanel
      [] k = "category"        -> CategorySends(act)
      [] k = "price list"      -> ListEdit(act)
      [] k = "price"           -> IF act = "price" THEN MatrixEditor ELSE CancelPrice
      [] k = "import"          -> Wizard(act)
      [] k = "subscription"    -> SubscriptionSends(act)
      [] k = "billing"         -> BillingSends(act)
      [] k = "plan"            -> PlanForm
      [] k = "plan request"    -> RequestAction
      [] k = "verification"    -> SubmitVerification
      [] k = "review"          -> ReviewAction
      [] k = "user"            -> UserDetail
      [] k = "organization"    -> OrganizationSends(act)
      [] k \in {"event", "issue"} -> OperationsSend
      [] k = "member"          -> TeamAction(act)
      [] k = "invitation"      -> InvitationSends(act)
      [] k = "inbox"           -> InboxSends(act)
      [] k = "seat"            -> LeaveSends
      [] k = "profile"         -> ProfileSends(act)
      [] k = "ticket form"     -> TicketForm
      [] k = "ticket"          -> TicketEditor

\* The records the server may make of the record, none when it refuses.
Takes(k, u, r, act, in) ==
    CASE k = "order"           -> OrderTakes(u, r, act, in)
      [] k = "order return"    -> OrderReturnTakes(u, r, act)
      [] k = "cart"            -> CartTakes(u, r, act, in)
      [] k = "on behalf"       -> OnBehalfTakes(u, r)
      [] k = "return"          -> ReturnTakes(u, r, act, in)
      [] k = "order dispute"   -> DisputeTakes(u, r, "ORDER", act, in)
      [] k = "payment dispute" -> DisputeTakes(u, r, "PAYMENT", act, in)
      [] k = "payment form"    -> PaymentRecorded(u, r, in)
      [] k = "payment"         -> PaymentTakes(u, r, act)
      [] k = "adjustment form" -> AdjustmentCreated(u, r, in)
      [] k = "adjustment"      -> AdjustmentTakes(u, r, act, in)
      [] k = "new partner"     -> NewPartnerTakes(u, r, act, in)
      [] k = "partner"         -> PartnerTakes(u, r, act, in)
      [] k = "terms"           -> TermsTakes(u, r, in)
      [] k = "board"           -> BoardTakes(u, r)
      [] k = "run"             -> RunTakes(u, r, act, in)
      [] k = "delivery"        -> DeliveryTakes(u, r, act)
      [] k = "stock"           -> StockTakes(u, r, act, in)
      [] k = "receipt"         -> ReceiptTakes(u, r)
      [] k = "product"         -> ProductTakes(u, r, act, in)
      [] k = "unit"            -> UnitTakes(u, r, act)
      [] k = "category"        -> CategoryTakes(u, r, act, in)
      [] k = "price list"      -> ListTakes(u, r, act)
      [] k = "price"           -> PriceTakes(u, r, act, in)
      [] k = "import"          -> ImportTakes(u, r, act)
      [] k = "subscription"    -> SubscriptionTakes(u, r, act, in)
      [] k = "billing"         -> BillingTakes(u, r, act)
      [] k = "plan"            -> PlanTakes(u, r, in)
      [] k = "plan request"    -> RequestTakes(u, r, in)
      [] k = "verification"    -> VerificationTakes(u, r)
      [] k = "review"          -> ReviewTakes(u, r, act)
      [] k = "user"            -> UserTakes(u, r, act)
      [] k = "organization"    -> OrganizationTakes(u, r, act)
      [] k = "event"           -> OutboxTakes(u, r)
      [] k = "issue"           -> IssueTakes(u, r)
      [] k = "member"          -> MemberTakes(u, r, act)
      [] k = "invitation"      -> InvitationTakes(u, r, act)
      [] k = "inbox"           -> respond(u, r, act)
      [] k = "seat"            -> LeaveTakes(u, r)
      [] k = "profile"         -> ProfileTakes(u, r, act, in)
      [] k = "ticket form"     -> {r}
      [] k = "ticket"          -> TicketTakes(u, r, in)

\* What moves the record without a screen of this kind: the courier, the jobs, the other screens.
OrderEvents(r) ==
    CASE r.status = "READY_FOR_DELIVERY" -> To(r, "IN_TRANSIT")
      [] r.status = "IN_TRANSIT"         -> To(r, "DELIVERED") \cup To(r, "DELIVERY_FAILED")
      [] r.status = "DELIVERED"          -> To(r, "COMPLETED") \cup To(r, "DISPUTED")
      [] r.status = "DISPUTED"           -> To(r, "COMPLETED")
      [] OTHER                           -> {}

Events(k, r) ==
    CASE k = "order"        -> OrderEvents(r)
      [] k = "order return" -> OrderReturnEvents(r)
      [] k = "run"          -> RunEvents(r)
      [] k = "delivery"     -> DeliveryEvents(r)
      [] k = "stock"        -> StockEvents(r)
      [] k = "category"     -> CategoryEvents(r)
      [] k = "price"        -> PriceEvents(r)
      [] k = "import"       -> ImportEvents(r)
      [] k = "verification" -> VerificationEvents(r)
      [] k = "event"        -> OutboxEvents(r)
      [] k = "invitation"   -> InvitationEvents(r)
      [] k = "seat"         -> SeatEvents(r)
      [] k = "profile"      -> ProfileEvents(r)
      [] OTHER              -> {}

\* The pages that read again by themselves.
Polled ==
    {"order", "order return", "return", "order dispute", "payment dispute", "run", "delivery", "partner", "import",
     "subscription", "billing", "plan", "plan request"}

\* What the pages of such a record, and of the list it is in, ask the server for.
PageAsks(k, u, r) ==
    CASE k = "order"           -> OrdersPageAsks(u) \cup OrderPageAsks(u, r) \cup StoreDeliveryAsks(u, r)
      [] k = "order return"    -> OrderReturnAsks(u, r)
      [] k = "cart"            -> BuyingPageAsks(u, "catalog") \cup BuyingPageAsks(u, "cart")
      [] k = "on behalf"       -> If(IsCompany(u), BuyingPageAsks(u, "on behalf"))
      [] k = "return"          -> ReturnsPageAsks(u) \cup ReturnPageAsks(u, r)
      [] k = "order dispute"   -> DisputesPageAsks(u) \cup DisputePageAsks(u, "ORDER")
      [] k = "payment dispute" -> DisputesPageAsks(u) \cup DisputePageAsks(u, "PAYMENT")
      [] k \in {"payment form", "payment"} ->
            FinancePageAsks(u) \cup PartnerFinancePageAsks(u) \cup PaymentsPageAsks(u)
      [] k \in {"adjustment form", "adjustment"} -> AdjustmentsPageAsks(u)
      [] k = "partner"         -> PartnersPageAsks(u) \cup PartnerDetailAsks(u)
      [] k = "terms"           -> IF TermsOffers(u, r) = {} THEN {} ELSE TermsFormAsks(u)
      [] k = "board"           -> BoardAsks(u)
      [] k = "run"             -> RunPageAsks(u)
      [] k = "delivery"        -> DeliveryPageAsks(u, r)
      [] k = "stock"           -> StockPageAsks(u) \cup StockDetailAsks(u) \cup MovementsAsks(u, FALSE)
                                  \cup If("write-off" \in StockOffers(u, r), StockActionAsks("write-off"))
      [] k = "receipt"         -> ReceiptPageAsks(u)
      [] k = "product"         -> ProductsPageAsks(u) \cup ProductPageAsks(u)
      [] k = "category"        -> CategoriesPageAsks(u)
      [] k = "price list"      -> PriceListsPageAsks(u)
      [] k = "price"           -> MatrixAsks(u)
      [] k = "import"          -> ImportPagesAsk(u)
      [] k = "subscription"    -> SubscriptionPageAsks(u) \cup BannerAsks(u)
      [] k = "verification"    -> VerificationPageAsks(u)
      [] k = "member"          -> TeamPageAsks(u)
      [] k = "invitation"      -> TeamInvitationsAsk(u)
      [] k = "profile"         -> ProfilePageAsks(u)
      [] OTHER                 -> {}

\* Whom the server answers.
MayRead(u, q) ==
    CASE q \in {"orders", "pending orders", "order", "order catalog", "store catalog", "cart",
                "confirmation preview"}                              -> OrderMayRead(u, q)
      [] q \in {"returns", "return", "returnable", "completion preview", "disputes", "dispute"} -> ReturnMayRead(u, q)
      [] q \in {"partnerships", "partnership", "terms", "price lists"} -> PartnerMayRead(u, q)
      [] q \in {"deliveries", "runs", "run", "delivery", "store delivery", "members"} -> DeliveryMayRead(u, q)
      [] q \in {"stocks", "stock", "movements"}                      -> StockMayRead(u, q)
      [] q \in {"products", "categories", "prices", "imports"}       -> CatalogMayRead(u, q)
      [] q \in {"subscription", "payments of it", "plans", "access"} -> BillingMayRead(u, q)
      [] q = "verification"                                          -> VerificationMayRead(u, q)
      [] q \in {"invitations", "profile"}                            -> TeamMayRead(u, q)
      [] OTHER                                                       -> FinanceMayRead(u, q)
=============================================================================
