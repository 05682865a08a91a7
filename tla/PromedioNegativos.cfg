SPECIFICATION Spec
CONSTANTS
  WordSize = 128
  Cantidades = {0, 1, 3, 5, 9, 125}
  Tecleados = {0, 1, 2, 59, 63, 64, 125, 127}
  PilaMax = 12
INVARIANT PromedioDeNegativos
