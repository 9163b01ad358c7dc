SPECIFICATION Spec
CONSTANTS
  Plugins = {p1, p2}
  Optional = {p3}
  Offers <- AllOffers
  RemoveGranted = {TRUE, FALSE}
  MaxLoops = 2
  MaxLives = 3
INVARIANT TypeOK
 
