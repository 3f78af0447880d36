SPECIFICATION CatalogSpec
CONSTANTS
  h1 = h1
  h2 = h2
  Sku <- mcSku
  Product <- mcProduct
  ProductOf <- mcProductOf
  Requests <- mcRequests
  Quantities = {0, 1}
  Deltas <- mcDeltas
  MaxInt = 1
  MaxReservations = 1
  Staff = {h1, h2}
  NoCode = NoCode
  Brand = {"VIN"}
  Style = {"TOTE"}
  BaseColor = {"BLK"}
  Color = {"BLK", "TAN"}
  Size = {"OS", "M"}
  Edition = {"LTD"}
  BrandOf <- mcBrandOf
  StyleOf <- mcStyleOf
  Category = {"bags", "clothing"}
  SizesOf <- mcSizesOf
  Bodies <- mcBodies
  NewProducts <- mcNewProducts
  VariantPatches <- mcVariantPatches
  ProductPatches <- mcProductPatches
  MaxRequests = 3
SYMMETRY Interchangeable
INVARIANT CatalogConsistent
PROPERTY DeletedVariantHeldNothing
CHECK_DEADLOCK FALSE
