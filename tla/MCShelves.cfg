SPECIFICATION Spec
CONSTANTS
  u1 = u1
  u2 = u2
  r1 = r1
  r2 = r2
  n1 = n1
  b1 = b1
  Users = {u1, u2}
  Owners = {u1}
  Managers = {u2}
  Publishers = {}
  Asked = {"shared"}
  Favourites = Favourites
  Names = {Favourites, n1}
  Books = {b1}
  Requests = {r1, r2}
  Nobody = Nobody
  NoShelf = NoShelf
  Limit = 1
  MaxShelves = 2
  MaxChanges = 1
SYMMETRY Symmetry
CHECK_DEADLOCK FALSE
INVARIANTS WithinLimit LoneFavourites
PROPERTIES DanglingStaysDangling FavouritesStay
