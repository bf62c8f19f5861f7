CONSTANTS
  c1 = c1
  c2 = c2
  c3 = c3
  Rents <- MCRents
  NoRent = NoRent
  MaxKills = 2

SPECIFICATION FairSpec

INVARIANTS
  TypeOK
  OwnerIsUnique
  AnsweredOnce
  NoForeignHost

PROPERTIES
  AcceptedIsAnswered
  RentEnds
