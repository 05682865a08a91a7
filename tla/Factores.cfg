SPECIFICATION Spec
CONSTANTS
  WordSize = 256
  LargoCadena = 48
INVARIANTS TypeOK DentroDeLaSeccion TextoFiel FactorizacionCorrecta
  PrimerDivisorEsPrimo
PROPERTIES PasosAcotados ImplementaAbstracto
