CONSTANTS
    Acme = Acme
    Globex = Globex
    Seller = Seller
    Support = Support
    NoOwner = NoOwner
    Portfolio = Portfolio
    Issues <- MCIssues
    Customers = {Acme, Globex}
    CustomerOf <- MCCustomerOf
    Gradings <- MCGradings
    Owners = {Seller, Support}
    Restricted = {Seller}
    Transfers = 1
    Moves = 1

SPECIFICATION Spec
CHECK_DEADLOCK FALSE

INVARIANTS
    OwnRowsOnly
    EmptyExplained
    RubricAsDocumented
    PrimaryCarriesRisk
