----------------------------- MODULE PeopleForms ------------------------------
(***************************************************************************)
(* The forms about people: leads, accounts, and notes on either.           *)
(***************************************************************************)
EXTENDS Forms

-------------------------------------------------------------------------------
\* The form of a lead: creating it, editing it, and converting an inquiry
\* of the website into one; and the form of an order prefilled from it.

LeadStatuses == {"PROSPECT", "QUOTED", "CALL_BACK_LATER", "SHOPPING_AROUND",
                 "NOT_INTERESTED", "NEEDS_LOCALLY", "WE_DONT_SALE"}

createDefaultValues ==
    [leadDate |-> 0, cmpt |-> "YES", customerPhone |-> Blank, customerName |-> Blank,
     customerEmail |-> Blank, state |-> Blank, vehicleYear |-> Blank,
     vehicleMake |-> Blank, vehicleModel |-> Blank, vehicleVariant |-> Blank,
     quote |-> Blank, quoteCurrency |-> "USD", comments |-> Blank, prospects |-> Blank,
     status |-> "PROSPECT"]

\* buildDefaultValues: the form of a stored lead.
LeadLoadedInForm(row) == Only(row, DOMAIN createDefaultValues)

\* What the fields let a user type.
LeadPersonInputs ==
    [leadDate |-> Dates, cmpt |-> {"", "YES", "NO"}, customerPhone |-> Phones,
     customerName |-> Texts(160), customerEmail |-> Texts(160) \union {Malformed},
     state |-> Texts(80)]

LeadVehicleInputs ==
    [vehicleYear |-> Texts(10), vehicleMake |-> Texts(80), vehicleModel |-> Texts(80),
     vehicleVariant |-> Texts(80)]

LeadOfferInputs ==
    [quote |-> Amounts, quoteCurrency |-> {"USD", "CAD"}, comments |-> Texts(2000),
     status |-> LeadStatuses]

LeadInputs == LeadPersonInputs @@ LeadVehicleInputs @@ LeadOfferInputs

\* Of the API client, for creating and updating; the proxy parses again.
createLeadSchema(v) ==
    Fits([leadDate |-> PastOrToday, cmpt |-> {"YES", "NO"}, customerPhone |-> Phone,
      customerName |-> Required(160), customerEmail |-> Optional(160),
      state |-> Optional(80), vehicleYear |-> Required(10), vehicleMake |-> Required(80),
      vehicleModel |-> Required(80), vehicleVariant |-> Optional(80),
      quote |-> OrBlank(WholeCents), quoteCurrency |-> {"USD", "CAD"},
      comments |-> Optional(2000), prospects |-> Optional(255),
      status |-> LeadStatuses], v)

\* Of the form, which ends in pipe(createLeadSchema).
createLeadFormSchema(v) ==
    /\ Fits([leadDate |-> PastOrToday, cmpt |-> {"YES", "NO"}, customerPhone |-> Phone,
         customerName |-> Optional(160), customerEmail |-> Optional(160) \union {Malformed},
         state |-> Optional(80), vehicleYear |-> Optional(10),
         vehicleMake |-> Optional(80), vehicleModel |-> Optional(80),
         vehicleVariant |-> Optional(80), quote |-> OrBlank(WholeCents),
         quoteCurrency |-> {"USD", "CAD"}, comments |-> Optional(2000),
         prospects |-> Optional(255), status |-> LeadStatuses], v)
    /\ createLeadSchema(v)

\* What is undefined is not passed on; updates and conversions send it all.
toBackendCreateLeadPayload(v) ==
    Only(v, Given(v) \union {"comments", "prospects"})

CreateLeadDto(p) ==
    /\ {"leadDate", "cmpt", "customerPhone", "customerName", "vehicleYear", "vehicleMake",
        "vehicleModel", "status"} \subseteq DOMAIN p
    /\ Fits([leadDate |-> PastOrToday \union {1}, cmpt |-> {"YES", "NO"},
         customerPhone |-> Phone, customerName |-> Required(160),
         customerEmail |-> Optional(160), state |-> Optional(80),
         vehicleYear |-> Required(10), vehicleMake |-> Required(80),
         vehicleModel |-> Required(80), vehicleVariant |-> Optional(80),
         quote |-> OrBlank(TwoDecimals), quoteCurrency |-> {"USD", "CAD"},
         comments |-> Optional(2000), prospects |-> Optional(255),
         status |-> LeadStatuses], p)

UpdateLeadDto(p) ==
    Fits([leadDate |-> PastOrToday \union {1}, cmpt |-> {"YES", "NO"},
      customerPhone |-> Phone, customerName |-> Optional(160),
      customerEmail |-> Optional(160), state |-> Optional(80),
      vehicleYear |-> Optional(10), vehicleMake |-> Optional(80),
      vehicleModel |-> Optional(80), vehicleVariant |-> Optional(80),
      quote |-> OrBlank(TwoDecimals), quoteCurrency |-> {"USD", "CAD"},
      comments |-> Optional(2000), prospects |-> Optional(255),
      status |-> LeadStatuses], p)

\* assertPastOrTodayDate.
LeadDateAllowed(p) == "leadDate" \in DOMAIN p => p.leadDate <= 0

\* The given ones of year, make, model and part with a blank between each
\* two, and no more than 255 characters.
buildVehicleDescription(p) ==
    LET given == {f \in DOMAIN LeadVehicleInputs \cap DOMAIN p : p[f] # Blank}
    IN  Min({255, MapThenSumSet(LAMBDA f : p[f], given) + Max({0, Cardinality(given) - 1})})

\* LeadsRepository.create.
createdLead(p) ==
    [f \in DOMAIN createDefaultValues |-> IF f \in DOMAIN p THEN p[f] ELSE Blank]
        @@ [partDescription |-> buildVehicleDescription(p)]

\* Mutant: the currency of the quote is not among what is written.
updatedLeadUnpriced(row, p) ==
    LET given == (Given(p) \union {"prospects"}) \ {"quoteCurrency"}
    IN  [f \in DOMAIN row |->
            IF f = "partDescription" THEN buildVehicleDescription(p)
            ELSE IF f \in given THEN p[f] ELSE row[f]]

\* LeadsRepository.update: the DTO made an emptied text undefined, which
\* keeps what is stored, but for the prospects; the description is built
\* from what is given.
updatedLead(row, p) ==
    LET given == Given(p) \union {"prospects"}
    IN  [f \in DOMAIN row |->
            IF f = "partDescription" THEN buildVehicleDescription(p)
            ELSE IF f \in given THEN p[f] ELSE row[f]]

-----------------------------------------------------------------------------
(* An inquiry, and what is made of it and of a lead.                        *)

\* conversionValues: a part or a message that does not fit is cut.
conversionValues(inquiry) ==
    LET extra == IF inquiry.partRequested > 80 THEN 17 + inquiry.partRequested ELSE 0
    IN  [leadDate |-> inquiry.submittedAt, cmpt |-> "",
         customerPhone |-> formatUsPhoneNumber(inquiry.customerPhone),
         vehicleVariant |-> Min({80, inquiry.partRequested}),
         comments |-> IF extra = 0 /\ inquiry.message = Blank THEN Blank
                      ELSE Min({2000, extra + Max({0, inquiry.message})})]
            @@ Only(inquiry, {"customerName", "customerEmail", "state", "vehicleYear",
                              "vehicleMake", "vehicleModel"})
            @@ createDefaultValues

\* What IntakeWebsiteLeadDto lets be stored.
Inquiries ==
    LET base == [submittedAt |-> -2, customerName |-> 160, customerPhone |-> Blank,
                 customerEmail |-> 9, state |-> Blank, vehicleYear |-> 10,
                 vehicleMake |-> 80, vehicleModel |-> Blank, partRequested |-> Blank,
                 message |-> Blank]
    IN  {base, [base EXCEPT !.customerPhone = 11, !.customerName = Blank,
                            !.partRequested = 255, !.message = 4000, !.vehicleModel = 80],
         [base EXCEPT !.partRequested = 80, !.message = 30]}

\* buildOrderInitialValues: what an order takes over from a lead; the form
\* reads the adviser from the session.
buildOrderInitialValues(lead, values) ==
    [orderDate |-> 0, basePrice |-> lead.quote, salePrice |-> lead.quote,
     total |-> lead.quote, currency |-> lead.quoteCurrency, status |-> "CONFIRMED",
     partialPayment |-> Blank, note |-> lead.comments, advisorName |-> 5]
        @@ Only(lead, {"customerName", "customerEmail", "customerPhone", "partDescription",
                       "vehicleYear", "vehicleMake", "vehicleModel", "vehicleVariant"})
        @@ values

FilledLead ==
    [customerPhone |-> 10, customerName |-> 5, vehicleYear |-> 4, vehicleMake |-> 80,
     vehicleModel |-> 80] @@ createDefaultValues

StoredLeads ==
    LET lead(v) == createdLead(toBackendCreateLeadPayload(v))
    IN  {lead(FilledLead),
         lead([FilledLead EXCEPT !.vehicleVariant = 80, !.quote = 12340, !.comments = 1001,
                                 !.customerEmail = 9, !.quoteCurrency = "CAD"])}

-------------------------------------------------------------------------------
\* The forms of an account: creating it, changing its email and role,
\* giving it a new password; and the sign in that they lead to.  The form
\* of a note is here too.

StaffRoles == {"SALES", "SHIPPING"}

\* An address: no layer but one knows a longest.
Email == Nat \ {0}
Password == 8 .. 128

NewAccount == [name |-> Blank, email |-> Blank, role |-> "SALES", password |-> Blank]

AccountInputs ==
    [name |-> Texts(120), email |-> {Blank, Malformed, 9, 160, 161}, role |-> StaffRoles,
     password |-> {Blank, 7, 8, 128, 129}]

createUserSchema(v) ==
    Fits([name |-> Required(120), email |-> Email, role |-> StaffRoles,
          password |-> Password], v)

CreateUserDto(p) ==
    Fits([name |-> Required(120), email |-> Email, role |-> StaffRoles,
          password |-> Password], p)

createdUser(p) == [isActive |-> TRUE] @@ p

\* The account panel: an admin has no role to choose.
AccountShown(row) == Only(row, {"email"} \union {f \in {"role"} : row.role # "ADMIN"})

updateUserSchema(v) == Fits([email |-> Email, role |-> StaffRoles], v) /\ DOMAIN v # {}

UpdateUserDto(p) ==
    Fits([email |-> Required(160), role |-> StaffRoles \union {"ADMIN"}], p)

\* The checks of updateUser.
mayUpdateUser(row, p) ==
    DOMAIN p # {} /\ (row.role = "ADMIN" => "role" \notin DOMAIN p)

updatedUser(row, p) == p @@ row

NewPassword == [password |-> Blank, confirmPassword |-> Blank]

PasswordInputs == [f \in DOMAIN NewPassword |-> AccountInputs.password]

\* updateUserPasswordSchema, and what onPasswordSubmit sends of it.
updateUserPasswordSchema(v) ==
    v.password \in Password /\ v.confirmPassword = v.password

SentPassword(v) == [password |-> v.password]

updateUserPasswordPayloadSchema(v) == Fits([password |-> Password], v)

UpdateUserPasswordDto(p) == Fits([password |-> Password], p)

\* What the sign in takes: loginSchema in the browser and the proxy, LoginDto.
loginSchema(v) == Fits([email |-> Email, password |-> 8 .. 128], v)

LoginDto(p) == p.email \in Email /\ p.password >= 8

validateUser(row, p) == row.isActive /\ p.email = row.email /\ p.password = row.password

\* Whoever has the account can sign in.
CanSignIn(row) ==
    LET v == Only(row, {"email", "password"})
    IN  loginSchema(v) /\ LoginDto(v) /\ validateUser(row, v)

StoredAccounts ==
    LET account == createdUser([name |-> 5, email |-> 9, role |-> "SALES", password |-> 8])
    IN  {account, [account EXCEPT !.role = "ADMIN"]}

-----------------------------------------------------------------------------
(* A note: of the notes page and of the cards of the records.               *)

NoteInputs == [message |-> Texts(1000)]

\* createNoteSchema, and noteFormSchema, which ends in it.
createNoteSchema(v) == Fits([message |-> Required(1000)], v)

\* toBackendCreateNotePayload: the message is called content.
toBackendCreateNotePayload(v) == [content |-> v.message]

CreateNoteDto(p) == Fits([content |-> Required(1000)], p)

storedNote(p) == [message |-> p.content]
===============================================================================
