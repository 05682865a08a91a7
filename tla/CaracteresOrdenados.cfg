SPECIFICATION FairSpec
CONSTANTS
  Letras = {1, 2, 3, 4, 5}
  Limite = 5
  LargoArray = 8
  PilaMax = 35
INVARIANTS TypeOK ArrayFiel NadaSePierde PilaBalanceada DentroDelArray DesbordeSoloPorVacias
PROPERTIES PasosAcotados Termina ImplementaAbstracto
